---- MODULE Spec2Model ----
(***************************************************************************)
(* The vulnerability detection and finding-merge pipeline of               *)
(* src/src/security_analyzer.py (class SecurityAnalyzer).                  *)
(*                                                                         *)
(* Text is modelled as a sequence of lexemes ("atoms"): each atom stands   *)
(* for a fixed piece of HTML text, and every regular expression of the     *)
(* analyzer is translated to the same expression over atoms.  A match      *)
(* therefore starts and ends on atom boundaries, which is where the        *)
(* literals of the eight patterns start and end.                           *)
(***************************************************************************)
EXTENDS Integers, Sequences, FiniteSets, TLC

\* ------------------------------------------------------------------ bounds

\* Longest document, counted in fragments (see Fragments).
MaxFrags == 3

\* ------------------------------------------------------------------- text

NL == "\n"

\* The atoms that contain the character '>' (what [^>] refuses).
GtAtoms == {">", "-->", "</form>", "<script>", "</script>"}

Atoms ==
    {"<form", "method=POST", "method=GET", ">", "</form>",
     "<input", "name=csrf_token", "type=password", "autocomplete=on",
     "value=<?php echo $_GET",
     "<!--", "-->", "TODO", "password", "note",
     "<script>", "document.write(", "innerHTML=", "location",
     "localStorage", ")", "</script>",
     NL, "text5000"}

\* len() of the text an atom stands for.
AtomLen(a) ==
    CASE a = "<form" -> 5
      [] a = "method=POST" -> 14
      [] a = "method=GET" -> 13
      [] a = ">" -> 1
      [] a = "</form>" -> 7
      [] a = "<input" -> 6
      [] a = "name=csrf_token" -> 18
      [] a = "type=password" -> 16
      [] a = "autocomplete=on" -> 18
      [] a = "value=<?php echo $_GET" -> 24
      [] a = "<!--" -> 4
      [] a = "-->" -> 3
      [] a = "TODO" -> 6
      [] a = "password" -> 10
      [] a = "note" -> 6
      [] a = "<script>" -> 8
      [] a = "document.write(" -> 15
      [] a = "innerHTML=" -> 10
      [] a = "location" -> 8
      [] a = "localStorage" -> 12
      [] a = ")" -> 1
      [] a = "</script>" -> 9
      [] a = NL -> 1
      [] a = "text5000" -> 5000
      [] OTHER -> 1

RECURSIVE TextLen(_)
\* len(html_code)
TextLen(s) == IF s = <<>> THEN 0 ELSE AtomLen(Head(s)) + TextLen(Tail(s))

RECURSIVE Concat(_)
\* The concatenation of a sequence of texts.
Concat(ss) == IF ss = <<>> THEN <<>> ELSE Head(ss) \o Concat(Tail(ss))

\* s[lo:hi] of Python, on atoms (0-based, hi exclusive, both clipped).
Slice(s, lo, hi) ==
    LET l == IF lo < 0 THEN 0 ELSE lo
        h == IF hi > Len(s) THEN Len(s) ELSE hi
    IN  IF h <= l THEN <<>> ELSE SubSeq(s, l + 1, h)

\* ------------------------------------------------------ regular expressions

\* A regular expression is a sequence of items:
\*   [k |-> "lit",  a |-> S]   one atom of S (a literal of the pattern)
\*   [k |-> "star", a |-> S]   greedy S* ('.*' under DOTALL, or '[^>]*')
\*   [k |-> "nla",  a |-> S]   (?!.*x): no atom of S anywhere ahead
Lit(S) == [k |-> "lit", a |-> S]
Star(S) == [k |-> "star", a |-> S]
NotAhead(S) == [k |-> "nla", a |-> S]
Dot == Star(Atoms)
NoGt == Star(Atoms \ GtAtoms)

RECURSIVE Run(_, _, _)
\* How many atoms of S follow position pos of doc.
Run(S, doc, pos) ==
    IF pos < Len(doc) /\ doc[pos + 1] \in S THEN 1 + Run(S, doc, pos + 1) ELSE 0

RECURSIVE MatchFrom(_, _, _, _)
RECURSIVE Backtrack(_, _, _, _, _)
\* The end of the match of items i.. of re at position pos of doc that the
\* backtracking matcher of re finds first, or -1 when there is none.
MatchFrom(re, i, doc, pos) ==
    IF i > Len(re) THEN pos
    ELSE LET it == re[i] IN
         CASE it.k = "lit" ->
                IF pos < Len(doc) /\ doc[pos + 1] \in it.a
                THEN MatchFrom(re, i + 1, doc, pos + 1)
                ELSE -1
           [] it.k = "star" ->
                Backtrack(re, i, doc, pos, Run(it.a, doc, pos))
           [] it.k = "nla" ->
                IF \E j \in (pos + 1)..Len(doc) : doc[j] \in it.a
                THEN -1
                ELSE MatchFrom(re, i + 1, doc, pos)

\* A greedy star that took n atoms: the longest first, then one fewer.
Backtrack(re, i, doc, pos, n) ==
    LET r == MatchFrom(re, i + 1, doc, pos + n)
    IN  IF r # -1 THEN r
        ELSE IF n = 0 THEN -1
        ELSE Backtrack(re, i, doc, pos, n - 1)

RECURSIVE finditer(_, _, _)
\* re.finditer(regex, html_code, re.IGNORECASE | re.DOTALL): the matches
\* [start, end) from position from on, leftmost first, not overlapping.
finditer(re, doc, from) ==
    IF from > Len(doc) THEN <<>>
    ELSE LET e == MatchFrom(re, 1, doc, from)
         IN  IF e = -1 THEN finditer(re, doc, from + 1)
             ELSE <<[start |-> from, end |-> e]>>
                  \o finditer(re, doc, IF e > from THEN e ELSE from + 1)

\* ----------------------------------------------------------------- patterns

xss_patterns ==
    << [regex |-> <<Lit({"<script>"}), Dot, Lit({"document.write("}), Dot,
                    Lit({"location"}), Dot, Lit({")"})>>,
        cwe |-> "79", type |-> "XSS", subtype |-> "DOM-based XSS",
        description |-> "DOM-based XSS using document.write with location"],
       [regex |-> <<Lit({"<script>"}), Dot, Lit({"document.write("}), Dot,
                    Lit({"localStorage"}), Dot, Lit({")"})>>,
        cwe |-> "79", type |-> "XSS", subtype |-> "DOM-based XSS",
        description |-> "DOM-based XSS using document.write with localStorage"],
       [regex |-> <<Lit({"<script>"}), Dot, Lit({"innerHTML="}), Dot,
                    Lit({"location"}), Dot>>,
        cwe |-> "79", type |-> "XSS", subtype |-> "DOM-based XSS",
        description |-> "DOM-based XSS setting innerHTML from location"],
       [regex |-> <<Lit({"<input"}), NoGt, Lit({"value=<?php echo $_GET"})>>,
        cwe |-> "79", type |-> "XSS", subtype |-> "Reflected XSS",
        description |-> "Reflected XSS via PHP echo of user input"] >>

csrf_patterns ==
    << [regex |-> <<Lit({"<form"}), NoGt, Lit({"method=POST"}), NoGt, Lit({">"}),
                    NotAhead({"name=csrf_token"})>>,
        cwe |-> "352", type |-> "CSRF", subtype |-> "Missing Token",
        description |-> "POST form without CSRF token"] >>

info_disclosure_patterns ==
    << [regex |-> <<Lit({"<!--"}), Dot, Lit({"password", "type=password"}), Dot,
                    Lit({"-->"})>>,
        cwe |-> "200", type |-> "Information Disclosure",
        subtype |-> "Sensitive Comment",
        description |-> "Comment containing password information"],
       [regex |-> <<Lit({"<!--"}), Dot, Lit({"TODO"}), Dot, Lit({"-->"})>>,
        cwe |-> "200", type |-> "Information Disclosure",
        subtype |-> "Developer Comment",
        description |-> "Developer TODO comment in production code"],
       [regex |-> <<Lit({"<input"}), NoGt, Lit({"type=password"}), NoGt,
                    Lit({"autocomplete=on"})>>,
        cwe |-> "200", type |-> "Information Disclosure",
        subtype |-> "Password Storage",
        description |-> "Password field with autocomplete enabled"] >>

\* The combination with the last list left out.
initialize_patterns_without_info_disclosure == xss_patterns \o csrf_patterns

\* self.all_patterns as initialize_patterns leaves it.
initialize_patterns == xss_patterns \o csrf_patterns \o info_disclosure_patterns

\* ------------------------------------------------------------ pattern_match

RECURSIVE CountNL(_)
\* str.count('\n')
CountNL(s) ==
    IF s = <<>> THEN 0 ELSE (IF Head(s) = NL THEN 1 ELSE 0) + CountNL(Tail(s))

RECURSIVE SplitLines(_, _)
\* html_code.split('\n'): cur is the line being read.
SplitLines(s, cur) ==
    IF s = <<>> THEN <<cur>>
    ELSE IF Head(s) = NL THEN <<cur>> \o SplitLines(Tail(s), <<>>)
    ELSE SplitLines(Tail(s), Append(cur, Head(s)))

RECURSIVE JoinLines(_)
\* '\n'.join(lines)
JoinLines(ls) ==
    IF ls = <<>> THEN <<>>
    ELSE IF Len(ls) = 1 THEN ls[1]
    ELSE ls[1] \o <<NL>> \o JoinLines(Tail(ls))

\* The finding pattern_match builds for one match of one pattern.
MakeFinding(pattern, html_code, m) ==
    LET line_number == CountNL(Slice(html_code, 0, m.start)) + 1
        lines == SplitLines(html_code, <<>>)
        start_line == IF line_number - 3 > 0 THEN line_number - 3 ELSE 0
        end_line == IF Len(lines) < line_number + 3 THEN Len(lines)
                    ELSE line_number + 3
    IN  [type |-> pattern.type,
         subtype |-> pattern.subtype,
         cwe |-> pattern.cwe,
         description |-> pattern.description,
         line |-> line_number,
         code |-> Slice(html_code, m.start, m.end),
         context |-> JoinLines(Slice(lines, start_line, end_line)),
         source |-> "pattern_match"]

RECURSIVE pattern_match(_, _)
\* SecurityAnalyzer.pattern_match on an analyzer whose all_patterns is patterns.
pattern_match(patterns, html_code) ==
    IF patterns = <<>> THEN <<>>
    ELSE LET pattern == Head(patterns)
             matches == finditer(pattern.regex, html_code, 0)
         IN  [i \in 1..Len(matches) |-> MakeFinding(pattern, html_code, matches[i])]
             \o pattern_match(Tail(patterns), html_code)

\* -------------------------------------------------------------- dictionaries

\* d[k] = v on a dictionary d (a function on field names).
Put(d, k, v) == [x \in (DOMAIN d) \cup {k} |-> IF x = k THEN v ELSE d[x]]

\* a.get(k) == b.get(k): equal values, or both None.
GetEq(a, b, k) ==
    IF k \in DOMAIN a /\ k \in DOMAIN b THEN a[k] = b[k]
    ELSE k \notin DOMAIN a /\ k \notin DOMAIN b

\* -------------------------------------------------------------- llm_analyze

\* A reply of the engine is text, read line by line.  A line is
\* [key, val]: key is the prefix llm_analyze tests with startswith (or the
\* marker "VULNERABILITY ", or "NO_VULNERABILITIES_FOUND", or "" for any
\* other line), val the rest of the line, stripped.
Marker == "VULNERABILITY "
NoVuln == "NO_VULNERABILITIES_FOUND"
ReplyLine(key, val) == [key |-> key, val |-> val]

\* The value of a "Line:" line: digits int() accepts, or other text.
IntText(n) == [parses |-> TRUE, n |-> n]
OtherText(s) == [parses |-> FALSE, s |-> s]

\* The field a line sets, and "" for a line that sets none.
FieldOf ==
    [k \in {"Type:", "Subtype:", "CWE:", "Code:", "Line:", "Description:", "Fix:"}
       |-> CASE k = "Type:" -> "type"
             [] k = "Subtype:" -> "subtype"
             [] k = "CWE:" -> "cwe"
             [] k = "Code:" -> "code"
             [] k = "Line:" -> "line"
             [] k = "Description:" -> "description"
             [] k = "Fix:" -> "fix"]

RECURSIVE ParseSection(_, _)
\* The loop over the lines of one section (lines 231-248).
ParseSection(lines, vulnerability) ==
    IF lines = <<>> THEN vulnerability
    ELSE LET line == Head(lines)
             v == IF line.key \notin DOMAIN FieldOf THEN vulnerability
                  ELSE IF line.key = "Line:"
                       THEN Put(vulnerability, "line",
                                IF line.val.parses THEN line.val.n ELSE line.val.s)
                  ELSE Put(vulnerability, FieldOf[line.key], line.val)
         IN  ParseSection(Tail(lines), v)

RECURSIVE SplitSections(_, _)
\* analysis.split("VULNERABILITY "): cur is the section being read.
SplitSections(text, cur) ==
    IF text = <<>> THEN <<cur>>
    ELSE IF Head(text).key = Marker
         THEN <<cur>> \o SplitSections(Tail(text), <<ReplyLine("", Head(text).val)>>)
    ELSE SplitSections(Tail(text), Append(cur, Head(text)))

RECURSIVE ParseSections_without_test(_)
\* The loop over the sections without the test of line 250: every section
\* gives a finding.
ParseSections_without_test(sections) ==
    IF sections = <<>> THEN <<>>
    ELSE <<ParseSection(Head(sections), [source |-> "llm_analysis"])>>
         \o ParseSections_without_test(Tail(sections))

RECURSIVE ParseSections(_)
\* The loop over vulnerability_sections[1:] (lines 224-251).
ParseSections(sections) ==
    IF sections = <<>> THEN <<>>
    ELSE LET vulnerability == ParseSection(Head(sections), [source |-> "llm_analysis"])
         IN  (IF "type" \in DOMAIN vulnerability /\ "description" \in DOMAIN vulnerability
              THEN <<vulnerability>> ELSE <<>>)
             \o ParseSections(Tail(sections))

\* Lines 216-253: the findings parsed from the engine's reply.
ParseAnalysis(analysis) ==
    IF \E i \in 1..Len(analysis) : analysis[i].key = NoVuln THEN <<>>
    ELSE ParseSections(Tail(SplitSections(analysis, <<>>)))

\* llm_analyze without the test of lines 146-148: with no engine,
\* self.llm_engine.generate raises AttributeError.
llm_analyze_unguarded(engine, html_code, reply) ==
    IF engine = "none"
    THEN [raised |-> TRUE, findings |-> <<>>, prompts |-> <<>>, printed |-> {}]
    ELSE IF reply.raises
    THEN [raised |-> TRUE, findings |-> <<>>, prompts |-> <<html_code>>,
          printed |-> {}]
    ELSE [raised |-> FALSE, findings |-> ParseAnalysis(reply.text),
          prompts |-> <<html_code>>, printed |-> {}]

\* SecurityAnalyzer.llm_analyze.  engine is self.llm_engine, reply what
\* engine.generate does when called: [raises |-> TRUE] or
\* [raises |-> FALSE, text |-> lines].  The result tells whether the call
\* raised, the findings returned, and the prompts the engine received.
llm_analyze(engine, html_code, reply) ==
    IF engine = "none"
    THEN [raised |-> FALSE, findings |-> <<>>, prompts |-> <<>>,
          printed |-> {"Warning: No LLM engine provided. Skipping LLM analysis."}]
    ELSE IF reply.raises
    THEN [raised |-> TRUE, findings |-> <<>>, prompts |-> <<html_code>>,
          printed |-> {}]
    ELSE [raised |-> FALSE, findings |-> ParseAnalysis(reply.text),
          prompts |-> <<html_code>>, printed |-> {}]

\* ------------------------------------------------------------- get_nvd_info

\* d.get(k, default)
GetOr(d, k, default) == IF k \in DOMAIN d THEN d[k] ELSE default

\* {}
EmptyDict == [x \in {} |-> 0]

\* The first English description of a CVE, "" when it has none (lines 288-292).
RECURSIVE FirstEnglish(_)
FirstEnglish(descriptions) ==
    IF descriptions = <<>> THEN ""
    ELSE IF Head(descriptions).lang = "en" THEN Head(descriptions).value
    ELSE FirstEnglish(Tail(descriptions))

\* Lines 295-310: the CVSS entry read, by version; [0] of an empty list
\* raises IndexError.
MetricKey(metrics) ==
    IF "cvssMetricV31" \in DOMAIN metrics THEN "cvssMetricV31"
    ELSE IF "cvssMetricV30" \in DOMAIN metrics THEN "cvssMetricV30"
    ELSE IF "cvssMetricV2" \in DOMAIN metrics THEN "cvssMetricV2"
    ELSE ""

ExampleRaises(vuln) ==
    LET metrics == GetOr(GetOr(vuln, "cve", EmptyDict), "metrics", EmptyDict)
        key == MetricKey(metrics)
    IN  key # "" /\ metrics[key] = <<>>

\* Lines 285-317: the example built from one entry of data["vulnerabilities"].
Example(vuln) ==
    LET cve == GetOr(vuln, "cve", EmptyDict)
        metrics == GetOr(cve, "metrics", EmptyDict)
        key == MetricKey(metrics)
        cvss == metrics[key][1]
        cvssData == GetOr(cvss, "cvssData", EmptyDict)
    IN  [id |-> GetOr(cve, "id", ""),
         description |-> FirstEnglish(GetOr(cve, "descriptions", <<>>)),
         severity |-> IF key = "" THEN "Unknown"
                      ELSE IF key = "cvssMetricV2"
                           THEN GetOr(cvss, "baseSeverity", "Unknown")
                      ELSE GetOr(cvssData, "baseSeverity", "Unknown"),
         score |-> IF key = "" THEN 0 ELSE GetOr(cvssData, "baseScore", 0)]

\* The dictionary of the except branch (line 326).
NvdError(cwe_id, e) == [cwe_id |-> cwe_id, error |-> e, examples |-> <<>>]

\* Lines 265-322, the body of the try.  response is what the NVD service
\* does: stage says how far the request got ("request": requests.get raised,
\* "status": raise_for_status raised, "json": response.json() raised, "ok":
\* data is the parsed body).  The outcome is an exception e or the value
\* returned.
NvdLookup(cwe_id, response) ==
    IF response.stage # "ok" THEN [raised |-> TRUE, e |-> response.stage]
    ELSE LET vs == GetOr(response.data, "vulnerabilities", <<>>)
         IN  IF \E i \in 1..Len(vs) : ExampleRaises(vs[i])
             THEN [raised |-> TRUE, e |-> "list index out of range"]
             ELSE [raised |-> FALSE,
                   value |-> [cwe_id |-> cwe_id,
                              examples |-> [i \in 1..Len(vs) |-> Example(vs[i])]]]

\* A handler that catches the failures of the request only.
get_nvd_info_request_errors_only(cwe_id, response) ==
    LET try == NvdLookup(cwe_id, response)
    IN  IF try.raised /\ response.stage \in {"request", "status"}
        THEN [raised |-> FALSE, value |-> NvdError(cwe_id, try.e)]
        ELSE try

\* SecurityAnalyzer.get_nvd_info: the try, and the except Exception that
\* turns every failure into a dictionary (lines 324-326).
get_nvd_info(cwe_id, response) ==
    LET try == NvdLookup(cwe_id, response)
    IN  IF try.raised
        THEN [raised |-> FALSE, value |-> NvdError(cwe_id, try.e)]
        ELSE try

\* ----------------------------------------------------------------- chunking

\* len(html_code) < 5000 is analysed whole (line 351).
FullAnalysisLimit == 5000
\* chunk_size of the fallback chunking (line 377).
chunk_size == 4000

RECURSIVE ScanTags(_, _, _, _, _)
\* BeautifulSoup(html_code, 'html.parser'), as far as find_all('form') and
\* find_all('script') tell: the form and script elements of doc.  pos is the
\* atom read, mode "data", "comment" or "script" (with from, where the script
\* started), open the stack of the forms not closed yet.  A form or script
\* the document never closes runs to its end.
ScanTags(doc, pos, mode, open, from) ==
    IF pos > Len(doc)
    THEN {[tag |-> "form", start |-> open[i], end |-> Len(doc), closed |-> FALSE]
            : i \in 1..Len(open)}
         \cup (IF mode = "script"
               THEN {[tag |-> "script", start |-> from, end |-> Len(doc),
                      closed |-> FALSE]}
               ELSE {})
    ELSE LET a == doc[pos] IN
         CASE mode = "comment" ->
                ScanTags(doc, pos + 1, IF a = "-->" THEN "data" ELSE mode, open, from)
           [] mode = "script" ->
                IF a = "</script>"
                THEN {[tag |-> "script", start |-> from, end |-> pos, closed |-> TRUE]}
                     \cup ScanTags(doc, pos + 1, "data", open, 0)
                ELSE ScanTags(doc, pos + 1, mode, open, from)
           [] OTHER ->
                CASE a = "<!--" -> ScanTags(doc, pos + 1, "comment", open, from)
                  [] a = "<script>" -> ScanTags(doc, pos + 1, "script", open, pos)
                  [] a = "<form" -> ScanTags(doc, pos + 1, mode, Append(open, pos), from)
                  [] a = "</form>" /\ open # <<>> ->
                       {[tag |-> "form", start |-> open[Len(open)], end |-> pos,
                         closed |-> TRUE]}
                       \cup ScanTags(doc, pos + 1, mode, SubSeq(open, 1, Len(open) - 1),
                                     from)
                  [] OTHER -> ScanTags(doc, pos + 1, mode, open, from)

RECURSIVE InDocumentOrder(_)
\* The elements of a set, by where they start.
InDocumentOrder(es) ==
    IF es = {} THEN <<>>
    ELSE LET first == CHOOSE e \in es : \A o \in es : e.start <= o.start
         IN  <<first>> \o InDocumentOrder(es \ {first})

\* soup.find_all(tag)
find_all(doc, tag) ==
    InDocumentOrder({e \in ScanTags(doc, 1, "data", <<>>, 0) : e.tag = tag})

\* str(element): its text, with the closing tag the serializer adds.
ElementText(doc, e) ==
    SubSeq(doc, e.start, e.end)
    \o (IF e.closed THEN <<>>
        ELSE IF e.tag = "form" THEN <<"</form>">> ELSE <<"</script>">>)

\* The key sections in the other order: every script, then every form.
KeySections_scripts_first(doc) ==
    LET forms == find_all(doc, "form")
        scripts == find_all(doc, "script")
    IN  [i \in 1..Len(scripts) |-> ElementText(doc, scripts[i])]
        \o [i \in 1..Len(forms) |-> ElementText(doc, forms[i])]

\* Lines 362-372: every form, then every script.
KeySections(doc) ==
    LET forms == find_all(doc, "form")
        scripts == find_all(doc, "script")
    IN  [i \in 1..Len(forms) |-> ElementText(doc, forms[i])]
        \o [i \in 1..Len(scripts) |-> ElementText(doc, scripts[i])]

RECURSIVE OffsetOf(_, _)
\* The character offset at which atom i of doc starts.
OffsetOf(doc, i) == IF i <= 1 THEN 0 ELSE OffsetOf(doc, i - 1) + AtomLen(doc[i - 1])

\* html_code[lo:hi] on characters: the atoms with a character in [lo, hi)
\* (an atom cut by a chunk border shows in both chunks).
CharSlice(doc, lo, hi) ==
    LET keep == {i \in 1..Len(doc) :
                    OffsetOf(doc, i) < hi /\ OffsetOf(doc, i) + AtomLen(doc[i]) > lo}
    IN  IF keep = {} THEN <<>>
        ELSE SubSeq(doc, CHOOSE i \in keep : \A j \in keep : i <= j,
                         CHOOSE i \in keep : \A j \in keep : i >= j)

\* Lines 377-379: the fallback when parsing raised.
SimpleChunks(doc) ==
    LET n == (TextLen(doc) + chunk_size - 1) \div chunk_size
    IN  [k \in 1..n |-> CharSlice(doc, (k - 1) * chunk_size, k * chunk_size)]

\* The chunking without the test of line 351: key sections whatever the size.
Chunks_whatever_the_size(engine, html_code, parse_fails) ==
    IF engine = "none" THEN <<>>
    ELSE IF parse_fails THEN SimpleChunks(html_code)
    ELSE KeySections(html_code)

\* Lines 349-379: the texts analyze_html hands to llm_analyze, in order.
\* parse_fails: BeautifulSoup raises on this document.
Chunks(engine, html_code, parse_fails) ==
    IF engine = "none" THEN <<>>
    ELSE IF TextLen(html_code) < FullAnalysisLimit THEN <<html_code>>
    ELSE IF parse_fails THEN SimpleChunks(html_code)
    ELSE KeySections(html_code)

RECURSIVE TagChunk(_, _)
\* finding["chunk"] = i+1 for every finding of a chunk (lines 385-386).
TagChunk(findings, n) ==
    IF findings = <<>> THEN <<>>
    ELSE <<Put(Head(findings), "chunk", n)>> \o TagChunk(Tail(findings), n)

RECURSIVE AnalyzeChunks(_, _, _, _, _)
\* Lines 352 and 382-387: one llm_analyze call per chunk, replies[i] being
\* what the engine does on the i-th call; an exception ends the loop.
\* returns lists what each llm_analyze call returned.
AnalyzeChunks(engine, chunks, replies, i, whole) ==
    IF i > Len(chunks)
    THEN [raised |-> FALSE, findings |-> <<>>, prompts |-> <<>>, returns |-> <<>>]
    ELSE LET r == llm_analyze(engine, chunks[i], replies[i])
         IN  IF r.raised
             THEN [raised |-> TRUE, findings |-> <<>>, prompts |-> r.prompts,
                   returns |-> <<>>]
             ELSE LET rest == AnalyzeChunks(engine, chunks, replies, i + 1, whole)
                  IN  [raised |-> rest.raised,
                       findings |-> (IF whole THEN r.findings
                                     ELSE TagChunk(r.findings, i))
                                    \o rest.findings,
                       prompts |-> r.prompts \o rest.prompts,
                       returns |-> <<r.findings>> \o rest.returns]

\* -------------------------------------------------------------------- merge

\* The first finding of merged with the type and the code of f, 0 for none
\* (lines 402-405).
FirstDuplicate(merged, f) ==
    LET dup == {j \in 1..Len(merged) :
                   GetEq(merged[j], f, "type") /\ GetEq(merged[j], f, "code")}
    IN  IF dup = {} THEN 0 ELSE CHOOSE j \in dup : \A o \in dup : j <= o

\* The merge of one LLM finding without line 415: a finding that duplicates
\* none is dropped.
MergeOne_without_append(merged, llm_finding) ==
    LET j == FirstDuplicate(merged, llm_finding)
    IN  IF j = 0 THEN merged
        ELSE IF merged[j].source = "pattern_match" /\ "fix" \in DOMAIN llm_finding
        THEN [merged EXCEPT ![j] = Put(@, "fix", llm_finding.fix)]
        ELSE merged

\* The merge of one LLM finding that puts it in the place of the finding it
\* duplicates.
MergeOne_replacing_the_duplicate(merged, llm_finding) ==
    LET j == FirstDuplicate(merged, llm_finding)
    IN  IF j = 0 THEN Append(merged, llm_finding)
        ELSE [merged EXCEPT ![j] = llm_finding]

\* Lines 399-415 for one LLM finding.
MergeOne(merged, llm_finding) ==
    LET j == FirstDuplicate(merged, llm_finding)
    IN  IF j = 0 THEN Append(merged, llm_finding)
        ELSE IF merged[j].source = "pattern_match" /\ "fix" \in DOMAIN llm_finding
        THEN [merged EXCEPT ![j] = Put(@, "fix", llm_finding.fix)]
        ELSE merged

RECURSIVE MergeFindings(_, _)
\* Lines 391-415: merged starts as the pattern findings.
MergeFindings(merged, llm_findings) ==
    IF llm_findings = <<>> THEN merged
    ELSE MergeFindings(MergeOne(merged, Head(llm_findings)), Tail(llm_findings))

\* ------------------------------------------------------------------- enrich

\* The strings of the model str.isdigit() accepts.
DigitStrings == {"79", "352", "200", "91"}
isdigit(s) == s \in DigitStrings

\* bool(d) of a dictionary
Truthy(d) == DOMAIN d # {}

\* The lookup of an earlier nvd_info that does not compare the CWE.
CachedNvd_of_any_cwe(findings, cwe_id) ==
    LET has == {j \in 1..Len(findings) : "nvd_info" \in DOMAIN findings[j]}
    IN  IF has = {} THEN EmptyDict
        ELSE findings[CHOOSE j \in has : \A o \in has : j <= o].nvd_info

\* The lookup of an earlier nvd_info that passes over the dictionaries of
\* failed lookups.
CachedNvd_without_failures(findings, cwe_id) ==
    LET has == {j \in 1..Len(findings) :
                   /\ "nvd_info" \in DOMAIN findings[j]
                   /\ "cwe" \in DOMAIN findings[j]
                   /\ findings[j].cwe = cwe_id
                   /\ "error" \notin DOMAIN findings[j].nvd_info}
    IN  IF has = {} THEN EmptyDict
        ELSE findings[CHOOSE j \in has : \A o \in has : j <= o].nvd_info

\* Lines 425-426: the nvd_info of the first finding that has one for this CWE.
CachedNvd(findings, cwe_id) ==
    LET has == {j \in 1..Len(findings) :
                   /\ "nvd_info" \in DOMAIN findings[j]
                   /\ "cwe" \in DOMAIN findings[j]
                   /\ findings[j].cwe = cwe_id}
    IN  IF has = {} THEN EmptyDict
        ELSE findings[CHOOSE j \in has : \A o \in has : j <= o].nvd_info

RECURSIVE EnrichFrom(_, _, _, _)
\* Lines 419-431 from finding i on.  nvd is what the NVD service answers,
\* call after call; looked lists the get_nvd_info calls made so far.  An
\* exception out of get_nvd_info ends the loop.
EnrichFrom(findings, i, nvd, looked) ==
    IF i > Len(findings)
    THEN [raised |-> FALSE, findings |-> findings, looked |-> looked]
    ELSE LET finding == findings[i] IN
         IF "cwe" \in DOMAIN finding /\ isdigit(finding.cwe)
         THEN LET cwe_id == finding.cwe
                  cached == CachedNvd(findings, cwe_id)
                  call == ~Truthy(cached)
                  got == IF call
                         THEN get_nvd_info(cwe_id, nvd[(Len(looked) % Len(nvd)) + 1])
                         ELSE [raised |-> FALSE, value |-> cached]
              IN  IF got.raised
                  THEN [raised |-> TRUE, findings |-> findings,
                        looked |-> Append(looked, [cwe_id |-> cwe_id, failed |-> TRUE])]
                  ELSE EnrichFrom(
                         [findings EXCEPT ![i] = Put(@, "nvd_info", got.value)],
                         i + 1, nvd,
                         IF call
                         THEN Append(looked,
                                     [cwe_id |-> cwe_id,
                                      failed |-> "error" \in DOMAIN got.value])
                         ELSE looked)
         ELSE EnrichFrom(findings, i + 1, nvd, looked)

\* --------------------------------------------------------------------- sort

\* analyze_html.get_severity_score (lines 436-440)
get_severity_score(finding) ==
    IF "nvd_info" \in DOMAIN finding
       /\ Truthy(finding.nvd_info)
       /\ "examples" \in DOMAIN finding.nvd_info
       /\ Len(finding.nvd_info.examples) > 0
    THEN finding.nvd_info.examples[1].score
    ELSE 0

\* The place of f in a sort without reverse=True: behind every finding whose
\* score is at most its own.
InsertSorted_ascending(sorted, f) ==
    LET higher == {j \in 1..Len(sorted) :
                      get_severity_score(sorted[j]) > get_severity_score(f)}
        at == IF higher = {} THEN Len(sorted) + 1
              ELSE CHOOSE j \in higher : \A o \in higher : j <= o
    IN  SubSeq(sorted, 1, at - 1) \o <<f>> \o SubSeq(sorted, at, Len(sorted))

\* Where a stable descending sort puts f among sorted: behind every finding
\* whose score is at least its own.
InsertSorted(sorted, f) ==
    LET lower == {j \in 1..Len(sorted) :
                     get_severity_score(sorted[j]) < get_severity_score(f)}
        at == IF lower = {} THEN Len(sorted) + 1
              ELSE CHOOSE j \in lower : \A o \in lower : j <= o
    IN  SubSeq(sorted, 1, at - 1) \o <<f>> \o SubSeq(sorted, at, Len(sorted))

RECURSIVE SortFrom(_, _)
SortFrom(sorted, rest) ==
    IF rest = <<>> THEN sorted
    ELSE SortFrom(InsertSorted(sorted, Head(rest)), Tail(rest))

\* merged_findings.sort(key=get_severity_score, reverse=True) (line 442)
SortBySeverity(findings) == SortFrom(<<>>, findings)

\* ------------------------------------------------------------- analyze_html

\* What analyze_html printed of its errors (lines 325 and 375).
ErrorsPrinted(parse_error, raised, looked) ==
    (IF parse_error THEN {"Error parsing HTML"} ELSE {})
    \cup (IF \E k \in 1..Len(looked) :
                looked[k].failed /\ ~(raised /\ k = Len(looked))
          THEN {"Error fetching NVD information"} ELSE {})

\* The end of analyze_html with the LLM findings counted after the merge.
AnalysisResult_counting_after_merge(html_code, pattern_findings, llm, enriched, parse_error) ==
    LET merged_findings == SortBySeverity(enriched.findings)
    IN  [op |-> "analyze_html", html |-> html_code, raised |-> FALSE,
         result |-> [findings |-> merged_findings,
                     summary |-> [total_findings |-> Len(merged_findings),
                                  pattern_findings |-> Len(pattern_findings),
                                  llm_findings |-> Len(merged_findings)
                                                   - Len(pattern_findings),
                                  unique_findings |-> Len(merged_findings)]],
         prompts |-> llm.prompts, returns |-> llm.returns,
         looked |-> enriched.looked,
         printed |-> ErrorsPrinted(parse_error, FALSE, enriched.looked)]

\* Lines 444-463: what analyze_html ends with once the findings are merged
\* and enriched: the sort, and the dictionary returned (without its timing).
\* prompts, returns, looked and printed record what the call did to the
\* engine and got from llm_analyze, to the NVD service and to stdout.
AnalysisResult(html_code, pattern_findings, llm, enriched, parse_error) ==
    LET merged_findings == SortBySeverity(enriched.findings)
    IN  [op |-> "analyze_html", html |-> html_code, raised |-> FALSE,
         result |-> [findings |-> merged_findings,
                     summary |-> [total_findings |-> Len(merged_findings),
                                  pattern_findings |-> Len(pattern_findings),
                                  llm_findings |-> Len(llm.findings),
                                  unique_findings |-> Len(merged_findings)]],
         prompts |-> llm.prompts, returns |-> llm.returns,
         looked |-> enriched.looked,
         printed |-> ErrorsPrinted(parse_error, FALSE, enriched.looked)]

\* analyze_html left by an exception (of engine.generate, which nothing
\* catches): nothing is returned.  looked: the lookups made before it.
AnalysisRaised(html_code, llm, looked, parse_error) ==
    [op |-> "analyze_html", html |-> html_code, raised |-> TRUE,
     prompts |-> llm.prompts, returns |-> llm.returns, looked |-> looked,
     printed |-> ErrorsPrinted(parse_error, TRUE, looked)]

\* =============================================================== the scripts
\* --------------------------------------------------------------- file system

\* A path is the sequence of its components: os.path.join(a, b) is a \o b.
dirname(path) == SubSeq(path, 1, Len(path) - 1)

\* What the disk holds at a path: nothing, or a file and its data.
Absent == [exists |-> FALSE]
File(data) == [exists |-> TRUE, data |-> data]

\* The disk is [dirs, files]: the directories there are, and what there is at
\* each path.  os.path.exists(path):
exists(disk, path) == path \in disk.dirs \/ disk.files[path].exists

\* os.makedirs(dir, exist_ok=True)
makedirs(disk, dir) ==
    [disk EXCEPT !.dirs = @ \cup {SubSeq(dir, 1, n) : n \in 1..Len(dir)}]

\* with open(path, "w") as f: f.write(data), in a directory there is
write(disk, path, data) == [disk EXCEPT !.files[path] = File(data)]

\* os.remove(path)
remove(disk, path) == [disk EXCEPT !.files[path] = Absent]

\* ---------------------------------------------------------------------- YAML

\* The text of a YAML file, line by line: "section: key: value" entries, a
\* section that is a plain value, comments, and lines that are no YAML.
YamlEntry(section, key, value) ==
    [k |-> "entry", section |-> section, key |-> key, value |-> value]
YamlScalar(section, value) == [k |-> "scalar", section |-> section, value |-> value]
YamlComment == [k |-> "comment"]
YamlBad == [k |-> "bad"]

\* A loaded value: None, or a mapping from section names to a mapping
\* (dict |-> TRUE) or a plain value.
None == [none |-> TRUE]
Mapping(map) == [none |-> FALSE, map |-> map]
Dict(items) == [dict |-> TRUE, items |-> items]
Plain(value) == [dict |-> FALSE, value |-> value]

RECURSIVE LoadLines(_, _)
\* The mapping the lines build: a later key replaces an earlier one, and
\* comments leave no trace.
LoadLines(lines, map) ==
    IF lines = <<>> THEN map
    ELSE LET l == Head(lines)
             m == CASE l.k = "entry" ->
                         LET old == IF l.section \in DOMAIN map /\ map[l.section].dict
                                    THEN map[l.section].items ELSE EmptyDict
                         IN  Put(map, l.section, Dict(Put(old, l.key, l.value)))
                    [] l.k = "scalar" -> Put(map, l.section, Plain(l.value))
                    [] OTHER -> map
         IN  LoadLines(Tail(lines), m)

\* yaml.safe_load(f): raises on a text that is no YAML, gives None for a text
\* without content.
safe_load(text) ==
    IF \E i \in 1..Len(text) : text[i].k = "bad" THEN [raises |-> TRUE]
    ELSE IF \A i \in 1..Len(text) : text[i].k = "comment"
    THEN [raises |-> FALSE, value |-> None]
    ELSE [raises |-> FALSE, value |-> Mapping(LoadLines(text, EmptyDict))]

\* The names of the configuration, in the order yaml.dump sorts keys.
SortedNames ==
    <<"context_window", "headless", "llm", "max_tokens", "model_path", "navigator",
      "proxy", "risk_threshold", "scan_timeout", "security", "temperature",
      "timeout", "url", "user_agent", "zap_path">>

RECURSIVE DumpItems(_, _, _)
\* The entries of one section, from name n of SortedNames on.
DumpItems(section, items, n) ==
    IF n > Len(SortedNames) THEN <<>>
    ELSE (IF SortedNames[n] \in DOMAIN items
          THEN <<YamlEntry(section, SortedNames[n], items[SortedNames[n]])>>
          ELSE <<>>)
         \o DumpItems(section, items, n + 1)

RECURSIVE DumpSections(_, _)
\* yaml.dump(config, f, default_flow_style=False) from name n on: sections
\* and keys in sorted order.
DumpSections(map, n) ==
    IF n > Len(SortedNames) THEN <<>>
    ELSE (IF SortedNames[n] \notin DOMAIN map THEN <<>>
          ELSE IF map[SortedNames[n]].dict
          THEN DumpItems(SortedNames[n], map[SortedNames[n]].items, 1)
          ELSE <<YamlScalar(SortedNames[n], map[SortedNames[n]].value)>>)
         \o DumpSections(map, n + 1)

yaml_dump(map) == DumpSections(map, 1)

\* --------------------------------------------------------- download_model.py

\* The hash value no upload has replaced yet (lines 16, 23, 30, 76).
NoHash == <<"ADD_HASH_HERE_AFTER_UPLOAD">>

\* MODELS (lines 11-33)
MODELS ==
    [m \in {"llama3-8b", "mistral-7b", "phi-2"} |->
       CASE m = "llama3-8b" ->
              [url |-> "releases/download/v1.0/llama-3-8b.Q4_K_M.gguf",
               file_name |-> "llama-3-8b.Q4_K_M.gguf", size_mb |-> 4500,
               sha256 |-> NoHash,
               description |-> "Llama 3 8B (Q4_K_M quantized)"]
         [] m = "mistral-7b" ->
              [url |-> "releases/download/v1.0/mistral-7b-v0.1.Q4_K_M.gguf",
               file_name |-> "mistral-7b-v0.1.Q4_K_M.gguf", size_mb |-> 4100,
               sha256 |-> NoHash,
               description |-> "Mistral 7B (Q4_K_M quantized)"]
         [] m = "phi-2" ->
              [url |-> "releases/download/v1.0/phi-2.Q4_K_M.gguf",
               file_name |-> "phi-2.Q4_K_M.gguf", size_mb |-> 1500,
               sha256 |-> NoHash,
               description |-> "Phi-2 (Q4_K_M quantized)"]]

RECURSIVE sha256_update(_, _)
\* sha256_hash.update(byte_block): the digest h once the bytes are fed.  The
\* digest is a number below 251 here.
sha256_update(h, bytes) ==
    IF bytes = <<>> THEN h
    ELSE sha256_update((h * 31 + Head(bytes)) % 251, Tail(bytes))

\* hexdigest(): the digest as a string of hexadecimal digits.
hexdigest(h) ==
    LET digits == <<"0", "1", "2", "3", "4", "5", "6", "7",
                    "8", "9", "a", "b", "c", "d", "e", "f">>
    IN  <<digits[(h \div 16) + 1], digits[(h % 16) + 1]>>

\* calculate_sha256 (lines 35-42): the file is read block after block, which
\* feeds its bytes in their order.
calculate_sha256(data) == hexdigest(sha256_update(7, data))

RECURSIVE WriteChunks(_)
\* Lines 68-71: every chunk that is not empty is written to the file.
WriteChunks(blocks) ==
    IF blocks = <<>> THEN <<>>
    ELSE (IF Head(blocks) # <<>> THEN Head(blocks) ELSE <<>>)
         \o WriteChunks(Tail(blocks))

\* The KeyboardInterrupt handler without lines 112-113: the file stays.
Cancelled_keeping_the_file(disk, save_path) ==
    [raised |-> FALSE, returned |-> FALSE, disk |-> disk]

\* Lines 109-114: the download was cancelled by the user.
Cancelled(disk, save_path) ==
    [raised |-> FALSE, returned |-> FALSE,
     disk |-> IF exists(disk, save_path) THEN remove(disk, save_path) ELSE disk]

\* The end of the download without the comparison of the hashes.
Verified_without_comparison(model_info, save_path, verify_hash, disk) ==
    [raised |-> FALSE, returned |-> TRUE, disk |-> disk]

\* Lines 73-88: the download is complete; the hash is verified if asked for
\* and if the model has one.
Verified(model_info, save_path, verify_hash, disk) ==
    IF verify_hash /\ model_info.sha256 # NoHash
    THEN LET file_hash == calculate_sha256(disk.files[save_path].data)
         IN  [raised |-> FALSE, returned |-> file_hash = model_info.sha256,
              disk |-> disk]
    ELSE [raised |-> FALSE, returned |-> TRUE, disk |-> disk]

\* download_model (lines 44-114).  net is what the request does:
\*   [phase |-> "request", error |-> e]: requests.get or raise_for_status
\*      raises e ("http404", "http500", "connection", "timeout", "other"), the
\*      user interrupts ("interrupt"), or open(save_path, 'wb') raises
\*      OSError ("open"), which no except clause catches;
\*   [phase |-> "stream", blocks |-> b, ending |-> x]: the chunks b arrive and
\*      then the stream ends ("end"), breaks with a RequestException
\*      ("reset"), the user interrupts the loop ("interrupt"), or the stream
\*      ends and the user interrupts what follows ("late_interrupt").
download_model(model_info, save_path, verify_hash, disk, net) ==
    LET made == makedirs(disk, dirname(save_path))
    IN  IF net.phase = "request"
        THEN CASE net.error = "interrupt" -> Cancelled(made, save_path)
               [] net.error = "open" -> [raised |-> TRUE, disk |-> made]
               [] OTHER -> [raised |-> FALSE, returned |-> FALSE, disk |-> made]
        ELSE LET written == write(made, save_path, WriteChunks(net.blocks))
             IN  CASE net.ending = "reset" ->
                        [raised |-> FALSE, returned |-> FALSE, disk |-> written]
                   [] net.ending \in {"interrupt", "late_interrupt"} ->
                        Cancelled(written, save_path)
                   [] OTHER -> Verified(model_info, save_path, verify_hash, written)

config_path == <<"config", "settings.yaml">>

\* default_config (lines 124-141)
default_config(model_path) ==
    [navigator |-> Dict([headless |-> "False", timeout |-> "30000",
                         user_agent |-> "Mozilla/5.0"]),
     llm |-> Dict([model_path |-> model_path, context_window |-> "4096",
                   temperature |-> "0.1", max_tokens |-> "1024"]),
     security |-> Dict([zap_path |-> "", scan_timeout |-> "300",
                        risk_threshold |-> "medium"])]

\* Lines 144-156: the configuration update_config goes on with.
\* config['llm']['model_path'] = model_path raises on a configuration that is
\* no mapping or has no llm mapping, and the except clause takes the default.
ConfigFor(model_path, disk) ==
    IF ~exists(disk, config_path) THEN default_config(model_path)
    ELSE LET loaded == safe_load(disk.files[config_path].data)
         IN  IF loaded.raises \/ loaded.value.none THEN default_config(model_path)
             ELSE LET config == loaded.value.map
                  IN  IF "llm" \in DOMAIN config /\ config["llm"].dict
                      THEN [config EXCEPT !["llm"] =
                              Dict(Put(@.items, "model_path", model_path))]
                      ELSE default_config(model_path)

\* update_config (lines 116-164).  write_fails: open(config_path, 'w')
\* raises, which the except clause of line 163 prints.
update_config(model_path, disk, write_fails) ==
    LET made == makedirs(disk, <<"config">>)
    IN  IF write_fails THEN made
        ELSE write(made, config_path, yaml_dump(ConfigFor(model_path, made)))

\* main without the test of success: the config is updated after any
\* download that returned.
main_updating_after_any_download(args, disk, net, write_fails) ==
    IF args.list THEN [calls |-> <<[fn |-> "list_models"]>>, raised |-> FALSE, disk |-> disk]
    ELSE LET model_info == MODELS[args.model]
             save_path == <<"models", model_info.file_name>>
             update == [fn |-> "update_config", model_path |-> save_path]
         IN  IF exists(disk, save_path) /\ ~args.force
             THEN [calls |-> <<update>>, raised |-> FALSE,
                   disk |-> update_config(save_path, disk, write_fails)]
             ELSE LET got == download_model(model_info, save_path, ~args.skip_verify,
                                            disk, net)
                      call == [fn |-> "download_model", model_info |-> model_info,
                               save_path |-> save_path,
                               verify_hash |-> ~args.skip_verify]
                  IN  IF got.raised
                      THEN [calls |-> <<call @@ [raised |-> TRUE]>>, raised |-> TRUE,
                            disk |-> got.disk]
                      ELSE [calls |-> <<call @@ [raised |-> FALSE,
                                                 returned |-> got.returned],
                                        update>>,
                            raised |-> FALSE,
                            disk |-> update_config(save_path, got.disk, write_fails)]

\* main (lines 177-216).  args is what argparse made of the command line;
\* calls lists the functions main called, with what they returned.
main(args, disk, net, write_fails) ==
    IF args.list THEN [calls |-> <<[fn |-> "list_models"]>>, raised |-> FALSE, disk |-> disk]
    ELSE LET model_info == MODELS[args.model]
             save_path == <<"models", model_info.file_name>>
             update == [fn |-> "update_config", model_path |-> save_path]
         IN  IF exists(disk, save_path) /\ ~args.force
             THEN [calls |-> <<update>>, raised |-> FALSE,
                   disk |-> update_config(save_path, disk, write_fails)]
             ELSE LET got == download_model(model_info, save_path, ~args.skip_verify,
                                            disk, net)
                      call == [fn |-> "download_model", model_info |-> model_info,
                               save_path |-> save_path,
                               verify_hash |-> ~args.skip_verify]
                  IN  IF got.raised
                      THEN [calls |-> <<call @@ [raised |-> TRUE]>>, raised |-> TRUE,
                            disk |-> got.disk]
                      ELSE IF got.returned
                      THEN [calls |-> <<call @@ [raised |-> FALSE, returned |-> TRUE],
                                        update>>,
                            raised |-> FALSE,
                            disk |-> update_config(save_path, got.disk, write_fails)]
                      ELSE [calls |-> <<call @@ [raised |-> FALSE, returned |-> FALSE]>>,
                            raised |-> FALSE, disk |-> got.disk]

\* ------------------------------------------------------- tests/test_model.py

\* TEST_SCENARIOS (lines 28-171): the prompts are named, not spelled out.
TEST_SCENARIOS ==
    <<[name |-> "XSS Vulnerability Detection", prompt |-> "xss",
       expected_topics |-> <<"reflected XSS", "DOM-based XSS",
                             "user input sanitization">>],
      [name |-> "SQL Injection Detection", prompt |-> "sql",
       expected_topics |-> <<"SQL injection", "parameterized queries",
                             "prepared statements", "input validation">>],
      [name |-> "CSRF Vulnerability Analysis", prompt |-> "csrf",
       expected_topics |-> <<"CSRF token", "origin validation", "SameSite cookies">>],
      [name |-> "Security Header Analysis", prompt |-> "headers",
       expected_topics |-> <<"Content-Security-Policy", "X-Frame-Options",
                             "X-XSS-Protection", "Strict-Transport-Security">>],
      [name |-> "API Security Analysis", prompt |-> "api",
       expected_topics |-> <<"authorization", "excessive data exposure",
                             "sensitive data", "access control">>],
      [name |-> "Website Vulnerability Analysis", prompt |-> "website",
       expected_topics |-> <<"brute force protection", "account lockout",
                             "password policies", "HTTPS validation">>],
      [name |-> "Security Recommendation Generation", prompt |-> "wordpress",
       expected_topics |-> <<"WordPress updates", "plugin vulnerabilities",
                             "payment security", "PCI compliance">>]>>

\* str.lower() on the phrases of the model that have capitals.
LowerTable ==
    [s \in {"reflected XSS", "Reflected XSS", "DOM-based XSS", "SQL injection",
            "SQL Injection", "CSRF token", "CSRF Token", "SameSite cookies",
            "Content-Security-Policy", "X-Frame-Options", "X-XSS-Protection",
            "Strict-Transport-Security", "Authorization", "HTTPS validation",
            "Brute force protection", "WordPress updates", "WordPress Updates",
            "PCI compliance"} |->
       CASE s \in {"reflected XSS", "Reflected XSS"} -> "reflected xss"
         [] s = "DOM-based XSS" -> "dom-based xss"
         [] s \in {"SQL injection", "SQL Injection"} -> "sql injection"
         [] s \in {"CSRF token", "CSRF Token"} -> "csrf token"
         [] s = "SameSite cookies" -> "samesite cookies"
         [] s = "Content-Security-Policy" -> "content-security-policy"
         [] s = "X-Frame-Options" -> "x-frame-options"
         [] s = "X-XSS-Protection" -> "x-xss-protection"
         [] s = "Strict-Transport-Security" -> "strict-transport-security"
         [] s = "Authorization" -> "authorization"
         [] s = "HTTPS validation" -> "https validation"
         [] s = "Brute force protection" -> "brute force protection"
         [] s \in {"WordPress updates", "WordPress Updates"} -> "wordpress updates"
         [] s = "PCI compliance" -> "pci compliance"]
lower(s) == IF s \in DOMAIN LowerTable THEN LowerTable[s] ELSE s

\* topic.lower() in response.lower(): a response is a sequence of phrases.
TopicIn(topic, response) ==
    \E i \in 1..Len(response) : lower(response[i]) = lower(topic)

\* f"{coverage:.1f}%" of len(topics_found) / len(expected_topics) * 100, in
\* tenths of a percent.
Coverage(found, expected) == (2000 * found + expected) \div (2 * expected)

\* What engine.generate does in a test: raises an exception with a
\* message, or returns a response, or returns None.
Fails(message) == [raises |-> TRUE, error |-> message]
Answers(response) == [raises |-> FALSE, none |-> FALSE, response |-> response]
AnswersNone == [raises |-> FALSE, none |-> TRUE]

\* run_test without its try: the exception of engine.generate leaves it.
run_test_unguarded(engine_does, scenario, index) ==
    IF engine_does.raises \/ engine_does.none
    THEN [raised |-> TRUE]
    ELSE LET topics_found ==
                 SelectSeq(scenario.expected_topics,
                           LAMBDA t : TopicIn(t, engine_does.response))
         IN  [raised |-> FALSE,
              result |->
                [name |-> scenario.name, success |-> TRUE,
                 response |-> engine_does.response,
                 topics_found |-> topics_found,
                 topics_coverage |-> Coverage(Len(topics_found),
                                              Len(scenario.expected_topics)),
                 topics_missing |->
                    SelectSeq(scenario.expected_topics,
                              LAMBDA t : \A i \in 1..Len(topics_found) :
                                            topics_found[i] # t)]]

\* run_test (lines 197-240), without the times it measures.  engine_does is
\* what engine.generate does with the prompt of the scenario.  A response
\* of None makes response.lower() raise AttributeError inside the try.
run_test(engine_does, scenario, index) ==
    IF engine_does.raises
    THEN [raised |-> FALSE,
          result |-> [name |-> scenario.name, success |-> FALSE,
                      error |-> engine_does.error]]
    ELSE IF engine_does.none
    THEN [raised |-> FALSE,
          result |-> [name |-> scenario.name, success |-> FALSE,
                      error |-> "'NoneType' object has no attribute 'lower'"]]
    ELSE LET topics_found ==
                 SelectSeq(scenario.expected_topics,
                           LAMBDA t : TopicIn(t, engine_does.response))
         IN  [raised |-> FALSE,
              result |->
                [name |-> scenario.name, success |-> TRUE,
                 response |-> engine_does.response,
                 topics_found |-> topics_found,
                 topics_coverage |-> Coverage(Len(topics_found),
                                              Len(scenario.expected_topics)),
                 topics_missing |->
                    SelectSeq(scenario.expected_topics,
                              LAMBDA t : \A i \in 1..Len(topics_found) :
                                            topics_found[i] # t)]]

\* load_config (lines 173-181): the configuration, or None when the file
\* cannot be read.
load_config(disk) ==
    IF ~disk.files[config_path].exists THEN None
    ELSE LET loaded == safe_load(disk.files[config_path].data)
         IN  IF loaded.raises THEN None ELSE loaded.value

\* The file save_results writes (lines 242-255); the time in its name is
\* left out.
results_file == <<"tests", "results", "model_test_results.json">>

RECURSIVE RunTests(_, _, _)
\* Lines 328-330 from scenario i on: scenarios is results['scenarios'].
RunTests(engine_does, i, scenarios) ==
    IF i > Len(TEST_SCENARIOS) THEN [raised |-> FALSE, scenarios |-> scenarios]
    ELSE LET ran == run_test(engine_does[i], TEST_SCENARIOS[i], i - 1)
         IN  IF ran.raised THEN [raised |-> TRUE, scenarios |-> scenarios]
             ELSE RunTests(engine_does, i + 1, Append(scenarios, ran.result))

\* main (lines 290-336).  init_fails: LLMEngine(...) raises; engine_does:
\* what engine.generate does, call after call; write_fails: the results file
\* cannot be written.  ended tells how far main came.
test_main(disk, init_fails, engine_does, write_fails) ==
    LET config == load_config(disk)
    IN  IF config.none THEN [ended |-> "no config", raised |-> FALSE, disk |-> disk]
        ELSE IF "llm" \in DOMAIN config.map /\ ~config.map["llm"].dict
        THEN [ended |-> "llm is no mapping", raised |-> TRUE, disk |-> disk]
        ELSE IF \/ "llm" \notin DOMAIN config.map
                \/ "model_path" \notin DOMAIN config.map["llm"].items
                \/ ~exists(disk, config.map["llm"].items["model_path"])
        THEN [ended |-> "no model", raised |-> FALSE, disk |-> disk]
        ELSE IF init_fails
        THEN [ended |-> "no engine", raised |-> FALSE, disk |-> disk]
        ELSE LET model_path == config.map["llm"].items["model_path"]
                 ran == RunTests(engine_does, 1, <<>>)
                 results == [model_info |-> [name |-> model_path[Len(model_path)],
                                             path |-> model_path],
                             scenarios |-> ran.scenarios]
                 made == makedirs(disk, dirname(results_file))
             IN  IF ran.raised
                 THEN [ended |-> "tests", raised |-> TRUE, disk |-> disk,
                       scenarios |-> ran.scenarios]
                 ELSE IF write_fails
                 THEN [ended |-> "save", raised |-> TRUE, disk |-> made,
                       scenarios |-> ran.scenarios]
                 ELSE [ended |-> "done", raised |-> FALSE,
                       disk |-> write(made, results_file, results),
                       scenarios |-> ran.scenarios]

\* ------------------------------------------------------------------ setup.py

\* What setup.py writes into the files it creates, by name; user files hold
\* other lines.
GitignoreText == <<"# Python", "__pycache__/", "models/*.gguf", ".env">>
ExampleText == <<"#!/usr/bin/env python3", "def main():", "main()">>
NavigatorText == <<"#!/usr/bin/env python3", "class WebNavigator:">>
EngineText == <<"#!/usr/bin/env python3", "class LLMEngine:">>
ReadmeText == <<"# Autonomous Security Agent", "python setup.py">>
InitText == <<"# Package initialization">>

\* config/settings.yaml as setup.py writes it (lines 207-223).
SettingsText(model_path) ==
    <<YamlEntry("navigator", "headless", "false"),
      YamlEntry("navigator", "timeout", "30000"),
      YamlEntry("navigator", "user_agent", "Mozilla/5.0"),
      YamlEntry("llm", "model_path", model_path),
      YamlEntry("llm", "context_window", "4096"),
      YamlEntry("llm", "temperature", "0.1"),
      YamlEntry("llm", "max_tokens", "1024"),
      YamlEntry("security", "zap_path", ""),
      YamlComment,
      YamlEntry("security", "scan_timeout", "300"),
      YamlEntry("security", "risk_threshold", "medium")>>

\* with open(path, "w") whatever there is at the path.
Created_over_what_is_there(disk, path, data) ==
    [raised |-> FALSE, disk |-> write(disk, path, data)]

\* if not os.path.exists(path): with open(path, "w") as f: f.write(data).
\* open raises FileNotFoundError in a directory that is not there.
Created(disk, path, data) ==
    IF exists(disk, path) THEN [raised |-> FALSE, disk |-> disk]
    ELSE IF dirname(path) # <<>> /\ dirname(path) \notin disk.dirs
    THEN [raised |-> TRUE, disk |-> disk]
    ELSE [raised |-> FALSE, disk |-> write(disk, path, data)]

RECURSIVE ReadUntilEmpty(_)
\* Lines 115-122: the buffers written until response.read returns nothing.
ReadUntilEmpty(blocks) ==
    IF blocks = <<>> \/ Head(blocks) = <<>> THEN <<>>
    ELSE Head(blocks) \o ReadUntilEmpty(Tail(blocks))

\* download_file (lines 95-136).  net: urlopen raises ("refused"), the
\* buffers arrive and the response ends ("end"), or a read raises after
\* them ("broken"); the user may interrupt the reading ("interrupt").
download_file(url, destination, disk, net) ==
    LET made == makedirs(disk, dirname(destination))
    IN  CASE net.how = "refused" ->
                [raised |-> FALSE, returned |-> FALSE, disk |-> made]
          [] net.how = "end" ->
                [raised |-> FALSE, returned |-> TRUE,
                 disk |-> write(made, destination, ReadUntilEmpty(net.blocks))]
          [] net.how = "broken" ->
                [raised |-> FALSE, returned |-> FALSE,
                 disk |-> write(made, destination, ReadUntilEmpty(net.blocks))]
          [] OTHER ->
                [raised |-> TRUE,
                 disk |-> write(made, destination, ReadUntilEmpty(net.blocks))]

\* model_urls (lines 144-147): the file names of the URLs.
model_urls ==
    [m \in {"llama3-8b", "mistral-7b"} |->
        IF m = "llama3-8b" THEN "llama-3-8b.Q4_K_M.gguf"
        ELSE "mistral-7b-v0.1.Q4_K_M.gguf"]

\* download_model of setup.py (lines 138-168).  returned is save_path, or
\* <<>> for False; requested tells whether download_file was called.
setup_download_model(model_name, models_dir, disk, net) ==
    LET made == makedirs(disk, models_dir)
    IN  IF model_name \notin DOMAIN model_urls
        THEN [raised |-> FALSE, returned |-> <<>>, requested |-> FALSE, disk |-> made]
        ELSE LET save_path == Append(models_dir, model_urls[model_name])
                 got == download_file(model_urls[model_name], save_path, made, net)
             IN  IF exists(made, save_path)
                 THEN [raised |-> FALSE, returned |-> save_path,
                       requested |-> FALSE, disk |-> made]
                 ELSE IF got.raised
                 THEN [raised |-> TRUE, requested |-> TRUE, disk |-> got.disk]
                 ELSE [raised |-> FALSE,
                       returned |-> IF got.returned THEN save_path ELSE <<>>,
                       requested |-> TRUE, disk |-> got.disk]

\* The packages create_directory_structure makes (lines 174-183).
directories ==
    <<<<"src", "navigator">>, <<"src", "reasoning">>, <<"src", "security">>,
      <<"src", "utils">>, <<"tests">>, <<"examples">>, <<"models">>, <<"config">>>>

RECURSIVE MakeDirectories(_, _)
\* Lines 185-192 from directory i on.
MakeDirectories(disk, i) ==
    IF i > Len(directories) THEN disk
    ELSE LET made == makedirs(disk, directories[i])
             init_file == Append(directories[i], "__init__.py")
         IN  MakeDirectories(
                IF directories[i][1] = "src"
                THEN Created(made, init_file, InitText).disk ELSE made,
                i + 1)

\* create_directory_structure (lines 170-194)
create_directory_structure(disk) == [raised |-> FALSE, disk |-> MakeDirectories(disk, 1)]

\* create_config_files (lines 196-273)
create_config_files(model_path, disk) ==
    LET made == makedirs(disk, <<"config">>)
        settings == Created(made, config_path, SettingsText(model_path))
    IN  Created(settings.disk, <<".gitignore">>, GitignoreText)

\* create_example_script (lines 301-348)
create_example_script(disk) ==
    Created(makedirs(disk, <<"examples">>),
            <<"examples", "basic_navigation.py">>, ExampleText)

\* create_core_component_files (lines 350-533)
create_core_component_files(disk) ==
    LET nav == Created(disk, <<"src", "navigator", "web_navigator.py">>, NavigatorText)
    IN  IF nav.raised THEN nav
        ELSE Created(nav.disk, <<"src", "reasoning", "llm_engine.py">>, EngineText)

\* create_readme (lines 535-553)
create_readme(disk) == Created(disk, <<"README.md">>, ReadmeText)

\* ------------------------------------------------------------------- inputs

\* The documents handed to the analyzer are built from these pieces of HTML.
FormPost == <<"<form", "method=POST", ">", "</form>">>
FormToken ==
    <<"<form", "method=POST", ">", "<input", "name=csrf_token", ">", "</form>">>
FormGet == <<"<form", "method=GET", ">", "</form>">>
ScriptWrite == <<"<script>", "document.write(", "location", ")", "</script>">>
ScriptStorage == <<"<script>", "document.write(", "localStorage", ")", "</script>">>
ScriptInner == <<"<script>", "innerHTML=", "location", "</script>">>
PhpInput == <<"<input", "value=<?php echo $_GET", ">">>
PasswordInput == <<"<input", "type=password", "autocomplete=on", ">">>
CommentTodo == <<"<!--", "TODO", "password", "-->">>
CommentSecret == <<"<!--", "password", "-->">>
CommentNote == <<"<!--", "note", "-->">>
Filler == <<"text5000">>
Newline == <<NL>>

\* The pieces of the documents analyze_html and llm_analyze are run on.
Fragments == {FormPost, ScriptWrite, CommentTodo, Filler}

\* The pieces of the documents pattern_match alone is run on.
PatternFragments ==
    {FormPost, FormToken, FormGet, ScriptWrite, ScriptStorage, ScriptInner,
     PhpInput, PasswordInput, CommentSecret, CommentNote, Newline}

\* Every document of at most MaxFrags pieces of F.
DocsOf(F) == {Concat(fs) : fs \in UNION {[1..n -> F] : n \in 0..MaxFrags}}

\* The documents analyze_html and llm_analyze are run on, and those
\* pattern_match alone is run on.
Docs == DocsOf(Fragments)
PatternDocs == DocsOf(PatternFragments)

\* What engine.generate may do.
Raises == [raises |-> TRUE]
Says(text) == [raises |-> FALSE, text |-> text]

ReplyNone == Says(<<ReplyLine(NoVuln, "")>>)

\* A finding that repeats the CSRF pattern's, with a fix, and the same
\* finding once more with another fix.
ReplyCsrf ==
    Says(<<ReplyLine(Marker, "1:"),
           ReplyLine("Type:", "CSRF"),
           ReplyLine("Subtype:", "Missing Token"),
           ReplyLine("CWE:", "352"),
           ReplyLine("Code:", <<"<form", "method=POST", ">">>),
           ReplyLine("Line:", IntText(1)),
           ReplyLine("Description:", "The form submits a POST request without a CSRF token"),
           ReplyLine("Fix:", "Add a CSRF token"),
           ReplyLine(Marker, "2:"),
           ReplyLine("Type:", "CSRF"),
           ReplyLine("Code:", <<"<form", "method=POST", ">">>),
           ReplyLine("Description:", "State-changing form without protection"),
           ReplyLine("Fix:", "Set SameSite cookies")>>)

\* Five sections: a finding pattern matching has not, on a CWE the patterns
\* use too; a finding whose CWE is not a number; the same finding again; a
\* finding with neither code nor CWE; and a section with no description.
ReplyMixed ==
    Says(<<ReplyLine("", "Here is my analysis."),
           ReplyLine(Marker, "1:"),
           ReplyLine("Type:", "XSS"),
           ReplyLine("CWE:", "79"),
           ReplyLine("Code:", <<"innerHTML=">>),
           ReplyLine("Line:", IntText(7)),
           ReplyLine("Description:", "User-controlled data is inserted using innerHTML"),
           ReplyLine("Fix:", "Use textContent instead"),
           ReplyLine(Marker, "2:"),
           ReplyLine("Type:", "HTML Injection"),
           ReplyLine("CWE:", "CWE-91"),
           ReplyLine("Code:", <<"note">>),
           ReplyLine("Description:", "Markup is injected"),
           ReplyLine(Marker, "3:"),
           ReplyLine("Type:", "HTML Injection"),
           ReplyLine("CWE:", "91"),
           ReplyLine("Code:", <<"note">>),
           ReplyLine("Description:", "Markup is injected again"),
           ReplyLine(Marker, "4:"),
           ReplyLine("Type:", "Client-Side Validation"),
           ReplyLine("Line:", OtherText("3-5")),
           ReplyLine("Description:", "Checks are made in JavaScript only"),
           ReplyLine(Marker, "5:"),
           ReplyLine("Type:", "XSS"),
           ReplyLine("Fix:", "Escape the output")>>)

Replies == {Raises, ReplyNone, ReplyCsrf, ReplyMixed}

\* What the NVD service may do.
BodyHigh ==
    [vulnerabilities |->
       << [cve |-> [id |-> "CVE-A",
                    descriptions |-> <<[lang |-> "es", value |-> "uno"],
                                       [lang |-> "en", value |-> "one"]>>,
                    metrics |-> [cvssMetricV31 |->
                                   <<[cvssData |-> [baseSeverity |-> "CRITICAL",
                                                    baseScore |-> 9]]>>]]],
          [cve |-> [id |-> "CVE-B", descriptions |-> <<>>]] >>]
BodyLow ==
    [vulnerabilities |->
       << [cve |-> [id |-> "CVE-C",
                    descriptions |-> <<[lang |-> "en", value |-> "three"]>>,
                    metrics |-> [cvssMetricV2 |->
                                   <<[baseSeverity |-> "MEDIUM",
                                      cvssData |-> [baseScore |-> 4]]>>]]],
          [cve |-> [id |-> "CVE-D",
                    descriptions |-> <<>>,
                    metrics |-> [cvssMetricV30 |->
                                   <<[cvssData |-> [baseSeverity |-> "HIGH",
                                                    baseScore |-> 8]]>>]]] >>]
BodyNothing == [resultsPerPage |-> 0]
BodyBroken ==
    [vulnerabilities |->
       << [cve |-> [id |-> "CVE-E", metrics |-> [cvssMetricV31 |-> <<>>]]] >>]

NvdFailures == {[stage |-> "request"], [stage |-> "status"], [stage |-> "json"]}
NvdResponses ==
    NvdFailures
    \cup {[stage |-> "ok", data |-> b] : b \in {BodyHigh, BodyLow, BodyNothing, BodyBroken}}

\* The answers of the NVD service to the lookups of one analyze_html call:
\* the k-th lookup gets the k-th answer, and the answers repeat after the
\* last.  One failure stands for the three (analyze_html sees the same
\* dictionary but for its error text).
MaxNvdAnswers == 2
NvdAnswers == {[stage |-> "request"],
               [stage |-> "ok", data |-> BodyHigh],
               [stage |-> "ok", data |-> BodyLow]}
NvdScripts == [1..MaxNvdAnswers -> NvdAnswers]

\* What the engine does on the n calls of one analyze_html call, for every n
\* a document of Docs can ask for.
MostChunks ==
    LET ns == {Len(Chunks("engine", d, f)) : d \in Docs, f \in BOOLEAN}
    IN  CHOOSE n \in ns : \A m \in ns : m <= n
ReplyScripts == [n \in 0..MostChunks |-> [1..n -> Replies]]

\* What a run of download_model.py finds and gets.  The bytes of the model
\* file arrive in chunks; the file as uploaded is <<1, 2, 3>>.
Genuine == <<1, 2, 3>>
Streams ==
    {<< <<1, 2>>, <<3>> >>,
     << <<1, 2>>, <<>>, <<4>> >>,
     << <<1, 2>> >>}
Nets ==
    {[phase |-> "request", error |-> e] :
        e \in {"http404", "http500", "connection", "timeout", "other",
               "interrupt", "open"}}
    \cup {[phase |-> "stream", blocks |-> b, ending |-> x] :
            b \in Streams, x \in {"end", "reset", "interrupt", "late_interrupt"}}

\* The model_info download_model is called with: an entry of MODELS, or that
\* entry once the hash of the uploaded file is filled in.
ModelInfos ==
    {MODELS["llama3-8b"],
     [MODELS["llama3-8b"] EXCEPT !.sha256 = calculate_sha256(Genuine)]}

\* os.path.join("models", file_name) of every model.
SavePaths == {<<"models", MODELS[m].file_name>> : m \in DOMAIN MODELS}

\* Configurations a user wrote: one with other values and a section of its
\* own, one without an llm section, one whose llm is a plain value, one
\* that holds a comment only, and one that is no YAML.
ConfigCustom ==
    <<YamlComment,
      YamlEntry("llm", "temperature", "0.7"),
      YamlEntry("llm", "model_path", <<"models", "old.gguf">>),
      YamlEntry("navigator", "headless", "true"),
      YamlEntry("proxy", "url", "http://localhost:8080"),
      YamlEntry("llm", "temperature", "0.2")>>
ConfigNoLlm == <<YamlEntry("navigator", "headless", "true")>>
ConfigPlainLlm ==
    <<YamlScalar("llm", "llama"), YamlEntry("navigator", "headless", "true")>>
ConfigComment == <<YamlComment>>
ConfigBroken == <<YamlEntry("navigator", "headless", "true"), YamlBad>>
ConfigTexts ==
    {SettingsText(<<"models", "old.gguf">>), ConfigCustom, ConfigNoLlm,
     ConfigPlainLlm, ConfigComment, ConfigBroken}

\* What engine.generate may do with the prompt of a scenario: raise, return
\* None, or return a response that names all its topics in other capitals,
\* the first of them, or none.
TestAnswers(scenario) ==
    {Fails("model error"), AnswersNone,
     Answers(<<"Here is my analysis.">>),
     Answers(<<"Reflected XSS", "SQL Injection", "CSRF Token", "x-frame-options",
               "Authorization", "Brute force protection", "WordPress Updates">>),
     Answers(scenario.expected_topics)}

\* What engine.generate does on the scenarios of one run of main: on each it
\* raises, or names the topics of the first scenarios.
MainAnswers ==
    [1..Len(TEST_SCENARIOS) ->
        {Fails("model error"),
         Answers(<<"reflected xss", "SQL INJECTION", "parameterized queries">>)}]

\* -------------------------------------------------------------------- state

VARIABLES
    llm_engine,     \* self.llm_engine: "none" or "engine"
    all_patterns,   \* self.all_patterns
    pc,             \* "idle", or "returned" when a call has just returned
    last,           \* the call that returned: its arguments and its outcome
    disk,           \* the files and directories the scripts work on
    runs            \* the runs of a script made so far

vars == <<llm_engine, all_patterns, pc, last, disk, runs>>

\* Every path the scripts read or write.
Paths ==
    SavePaths
    \cup {config_path, <<"models", "old.gguf">>, <<".gitignore">>, <<"README.md">>,
          <<"examples", "basic_navigation.py">>,
          <<"src", "navigator", "web_navigator.py">>,
          <<"src", "reasoning", "llm_engine.py">>,
          <<"tests", "results", "model_test_results.json">>}
    \cup {<<"src", d, "__init__.py">> : d \in {"navigator", "reasoning", "security", "utils"}}

\* A disk without files.
NoDisk == [dirs |-> {}, files |-> [p \in Paths |-> Absent]]

NoCall == [op |-> "none"]

\* SecurityAnalyzer.__init__, with or without an engine.
Init ==
    /\ llm_engine \in {"none", "engine"}
    /\ all_patterns = initialize_patterns
    /\ pc = "idle"
    /\ last = NoCall
    /\ disk = NoDisk
    /\ runs = 0

\* analyzer.pattern_match(html_code) on a document of D
PatternMatchCall(D) ==
    /\ pc = "idle"
    /\ \E html_code \in D :
         last' = [op |-> "pattern_match", html |-> html_code, raised |-> FALSE,
                  findings |-> pattern_match(all_patterns, html_code)]
    /\ pc' = "returned"
    /\ UNCHANGED <<llm_engine, all_patterns, disk, runs>>

\* analyzer.llm_analyze(html_code)
LlmAnalyzeCall ==
    /\ pc = "idle"
    /\ \E html_code \in Docs :
         \E reply \in (IF llm_engine = "none" THEN {ReplyNone} ELSE Replies) :
            last' = [op |-> "llm_analyze", html |-> html_code, reply |-> reply]
                    @@ llm_analyze(llm_engine, html_code, reply)
    /\ pc' = "returned"
    /\ UNCHANGED <<llm_engine, all_patterns, disk, runs>>

\* analyzer.get_nvd_info(cwe_id)
GetNvdInfoCall ==
    /\ pc = "idle"
    /\ \E cwe_id \in DigitStrings, response \in NvdResponses :
         last' = [op |-> "get_nvd_info", cwe_id |-> cwe_id, response |-> response]
                 @@ get_nvd_info(cwe_id, response)
    /\ pc' = "returned"
    /\ UNCHANGED <<llm_engine, all_patterns, disk, runs>>

\* analyzer.analyze_html(html_code).  parse_fails: BeautifulSoup raises on
\* the document; replies: what engine.generate does, call after call; nvd:
\* what the NVD service answers, lookup after lookup.
AnalyzeHtmlCall ==
    /\ pc = "idle"
    /\ \E html_code \in Docs, parse_fails \in BOOLEAN :
         \E pattern_findings \in {pattern_match(all_patterns, html_code)},
            whole \in {TextLen(html_code) < FullAnalysisLimit} :
           \E parse_error \in {llm_engine # "none" /\ ~whole /\ parse_fails},
              chunks \in {Chunks(llm_engine, html_code, parse_fails)} :
             /\ parse_fails => parse_error
             /\ \E replies \in ReplyScripts[Len(chunks)] :
                  \E llm \in {AnalyzeChunks(llm_engine, chunks, replies, 1, whole)} :
                    IF llm.raised
                    THEN last' = AnalysisRaised(html_code, llm, <<>>, parse_error)
                    ELSE \E merged \in {MergeFindings(pattern_findings, llm.findings)},
                            nvd \in NvdScripts :
                           \E enriched \in {EnrichFrom(merged, 1, nvd, <<>>)} :
                             last' = IF enriched.raised
                                     THEN AnalysisRaised(html_code, llm,
                                                         enriched.looked, parse_error)
                                     ELSE AnalysisResult(html_code, pattern_findings,
                                                         llm, enriched, parse_error)
    /\ pc' = "returned"
    /\ UNCHANGED <<llm_engine, all_patterns, disk, runs>>

\* The caller takes the result; the analyzer is ready for the next call.
Return ==
    /\ pc = "returned"
    /\ pc' = "idle"
    /\ last' = NoCall
    /\ UNCHANGED <<llm_engine, all_patterns, disk, runs>>

Next ==
    \/ PatternMatchCall(Docs)
    \/ LlmAnalyzeCall
    \/ GetNvdInfoCall
    \/ AnalyzeHtmlCall
    \/ Return

Spec == Init /\ [][Next]_vars

\* pattern_match alone, on the wider set of documents.
NextPatterns ==
    \/ PatternMatchCall(PatternDocs)
    \/ Return

SpecPatterns == Init /\ [][NextPatterns]_vars

\* ------------------------------------------------- download_model.py at work

\* The runs of a script a behaviour goes through at most.
MaxRuns == 2

\* A disk with a model file and a configuration file, or without.
DiskWith(model, config) ==
    [dirs |-> (IF model.exists THEN {<<"models">>} ELSE {})
              \cup (IF config.exists THEN {<<"config">>} ELSE {}),
     files |-> [p \in Paths |->
                  IF p = <<"models", MODELS["llama3-8b"].file_name>> THEN model
                  ELSE IF p = config_path THEN config
                  ELSE Absent]]

\* The disks download_model.py may find: the model absent, downloaded, or
\* left in part by a download that broke; the configuration absent or any
\* of ConfigTexts.
DownloadDisks ==
    {DiskWith(model, config) :
        model \in {Absent, File(Genuine), File(<<1, 2>>)},
        config \in {Absent} \cup {File(t) : t \in ConfigTexts}}

InitDownload ==
    /\ llm_engine = "none"
    /\ all_patterns = <<>>
    /\ pc = "idle"
    /\ last = NoCall
    /\ disk \in DownloadDisks
    /\ runs = 0

\* download_model(model_info, save_path, verify_hash)
DownloadModelCall ==
    /\ pc = "idle"
    /\ runs < MaxRuns
    /\ \E model_info \in ModelInfos, verify_hash \in BOOLEAN, net \in Nets :
         \E save_path \in {<<"models", model_info.file_name>>} :
           \E got \in {download_model(model_info, save_path, verify_hash, disk, net)} :
              /\ disk' = got.disk
              /\ last' = [op |-> "download_model", model_info |-> model_info,
                          save_path |-> save_path, verify_hash |-> verify_hash,
                          net |-> net, before |-> disk, raised |-> got.raised]
                         @@ (IF got.raised THEN EmptyDict
                             ELSE [returned |-> got.returned])
    /\ pc' = "returned"
    /\ runs' = runs + 1
    /\ UNCHANGED <<llm_engine, all_patterns>>

\* update_config(model_path)
UpdateConfigCall ==
    /\ pc = "idle"
    /\ runs < MaxRuns
    /\ \E model_path \in SavePaths, write_fails \in BOOLEAN :
         /\ disk' = update_config(model_path, disk, write_fails)
         /\ last' = [op |-> "update_config", model_path |-> model_path,
                     write_fails |-> write_fails, before |-> disk]
    /\ pc' = "returned"
    /\ runs' = runs + 1
    /\ UNCHANGED <<llm_engine, all_patterns>>

\* python download_model.py [--model M] [--list] [--skip-verify] [--force]
MainCall ==
    /\ pc = "idle"
    /\ runs < MaxRuns
    /\ \E args \in [model : DOMAIN MODELS, list : BOOLEAN, skip_verify : BOOLEAN,
                    force : BOOLEAN],
          net \in Nets, write_fails \in BOOLEAN :
         \E ran \in {main(args, disk, net, write_fails)} :
            /\ disk' = ran.disk
            /\ last' = [op |-> "main", args |-> args, before |-> disk,
                        calls |-> ran.calls, raised |-> ran.raised]
    /\ pc' = "returned"
    /\ runs' = runs + 1
    /\ UNCHANGED <<llm_engine, all_patterns>>

NextDownload ==
    \/ DownloadModelCall
    \/ UpdateConfigCall
    \/ MainCall
    \/ Return

SpecDownload == InitDownload /\ [][NextDownload]_vars

\* ----------------------------------------------------- test_model.py at work

\* The runs of test_model.py a behaviour goes through at most.
MaxTestRuns == 1

\* The disks test_model.py may find: the configuration absent or any of
\* ConfigTexts, whose model is there or not.
TestDisks ==
    {[dirs |-> {<<"config">>, <<"models">>},
      files |-> [p \in Paths |->
                   IF p = config_path THEN config
                   ELSE IF p = <<"models", "old.gguf">> THEN model
                   ELSE Absent]] :
        config \in {Absent} \cup {File(t) : t \in ConfigTexts},
        model \in {Absent, File(Genuine)}}

InitTestModel ==
    /\ llm_engine = "none"
    /\ all_patterns = <<>>
    /\ pc = "idle"
    /\ last = NoCall
    /\ disk \in TestDisks
    /\ runs = 0

\* run_test(engine, scenario, index)
RunTestCall ==
    /\ pc = "idle"
    /\ runs < MaxTestRuns
    /\ \E i \in 1..Len(TEST_SCENARIOS) :
         \E engine_does \in TestAnswers(TEST_SCENARIOS[i]) :
            last' = [op |-> "run_test", index |-> i - 1,
                     scenario |-> TEST_SCENARIOS[i], engine_does |-> engine_does]
                    @@ run_test(engine_does, TEST_SCENARIOS[i], i - 1)
    /\ pc' = "returned"
    /\ runs' = runs + 1
    /\ UNCHANGED <<llm_engine, all_patterns, disk>>

\* python tests/test_model.py
TestMainCall ==
    /\ pc = "idle"
    /\ runs < MaxTestRuns
    /\ \E init_fails \in BOOLEAN, engine_does \in MainAnswers, write_fails \in BOOLEAN :
         \E ran \in {test_main(disk, init_fails, engine_does, write_fails)} :
            /\ disk' = ran.disk
            /\ last' = [op |-> "test_main", before |-> disk,
                        engine_does |-> engine_does]
                       @@ [k \in (DOMAIN ran) \ {"disk"} |-> ran[k]]
    /\ pc' = "returned"
    /\ runs' = runs + 1
    /\ UNCHANGED <<llm_engine, all_patterns>>

NextTestModel ==
    \/ RunTestCall
    \/ TestMainCall
    \/ Return

SpecTestModel == InitTestModel /\ [][NextTestModel]_vars

\* ----------------------------------------------------------- setup.py at work

\* The files the claimed steps of setup.py create.
SetupFiles ==
    {config_path, <<".gitignore">>, <<"examples", "basic_navigation.py">>,
     <<"src", "navigator", "web_navigator.py">>,
     <<"src", "reasoning", "llm_engine.py">>, <<"README.md">>}

\* What a user has written at a path setup.py also writes.
UserFile(path) ==
    IF path = config_path THEN File(ConfigCustom) ELSE File(<<"# my own">>)

\* What the network does to download_file.
SetupNets ==
    {[how |-> "refused"],
     [how |-> "end", blocks |-> << <<1, 2>>, <<3>>, <<>>, <<4>> >>],
     [how |-> "broken", blocks |-> << <<1, 2>> >>],
     [how |-> "interrupt", blocks |-> << <<1>> >>]}

\* The disks setup.py may find: any of the files already written by the
\* user, the directories of the files there are, the packages made or not,
\* the model downloaded or not.
SetupDisks ==
    {[dirs |-> {dirname(p) : p \in {q \in theirs : Len(q) > 1}}
               \cup {SubSeq(dirname(p), 1, 1) : p \in {q \in theirs : Len(q) > 2}}
               \cup (IF packages
                     THEN {<<"src">>, <<"src", "navigator">>, <<"src", "reasoning">>}
                     ELSE {})
               \cup (IF model.exists THEN {<<"models">>} ELSE {}),
      files |-> [p \in Paths |->
                   IF p \in theirs THEN UserFile(p)
                   ELSE IF p = <<"models", "llama-3-8b.Q4_K_M.gguf">> THEN model
                   ELSE Absent]] :
        theirs \in SUBSET SetupFiles, packages \in BOOLEAN,
        model \in {Absent, File(Genuine)}}

InitSetup ==
    /\ llm_engine = "none"
    /\ all_patterns = <<>>
    /\ pc = "idle"
    /\ last = NoCall
    /\ disk \in SetupDisks
    /\ runs = 0

\* A step of setup.py that went from disk to ran.disk.
SetupStep(args, ran) ==
    /\ disk' = ran.disk
    /\ last' = args @@ [before |-> disk] @@ [k \in (DOMAIN ran) \ {"disk"} |-> ran[k]]
    /\ pc' = "returned"
    /\ runs' = runs + 1
    /\ UNCHANGED <<llm_engine, all_patterns>>

SetupDownloadCall ==
    /\ pc = "idle"
    /\ runs < MaxRuns
    /\ \E model_name \in {"llama3-8b", "mistral-7b", "phi-2"}, net \in SetupNets :
          SetupStep([op |-> "setup_download_model", model_name |-> model_name],
                    setup_download_model(model_name, <<"models">>, disk, net))

CreateDirectoryStructureCall ==
    /\ pc = "idle"
    /\ runs < MaxRuns
    /\ SetupStep([op |-> "create_directory_structure"], create_directory_structure(disk))

CreateConfigFilesCall ==
    /\ pc = "idle"
    /\ runs < MaxRuns
    /\ \E model_path \in SavePaths :
          SetupStep([op |-> "create_config_files", model_path |-> model_path],
                    create_config_files(model_path, disk))

CreateExampleScriptCall ==
    /\ pc = "idle"
    /\ runs < MaxRuns
    /\ SetupStep([op |-> "create_example_script"], create_example_script(disk))

CreateCoreComponentFilesCall ==
    /\ pc = "idle"
    /\ runs < MaxRuns
    /\ SetupStep([op |-> "create_core_component_files"], create_core_component_files(disk))

CreateReadmeCall ==
    /\ pc = "idle"
    /\ runs < MaxRuns
    /\ SetupStep([op |-> "create_readme"], create_readme(disk))

NextSetup ==
    \/ SetupDownloadCall
    \/ CreateDirectoryStructureCall
    \/ CreateConfigFilesCall
    \/ CreateExampleScriptCall
    \/ CreateCoreComponentFilesCall
    \/ CreateReadmeCall
    \/ Return

SpecSetup == InitSetup /\ [][NextSetup]_vars

\* ================================================================== claims

\* analyze_html has returned a result dictionary.
Analyzed == last.op = "analyze_html" /\ ~last.raised
Findings == last.result.findings

\* Two findings with the same type and the same code.
SameTypeAndCode(f, g) == GetEq(f, g, "type") /\ GetEq(f, g, "code")

\* The score the claims give a finding: that of the first NVD example of
\* its nvd_info, 0 without nvd_info or without examples.
FirstExampleScore(f) ==
    IF "nvd_info" \in DOMAIN f /\ f.nvd_info.examples # <<>>
    THEN f.nvd_info.examples[1].score
    ELSE 0

\* ------------------------------------------------------------------------ C1
\* C1: in the findings analyze_html returns, no two findings have both the
\* same type and the same code.  The code does not keep this: the pattern
\* findings are merged as they come, two of them may agree on both.
C1_NoTwoFindingsShareTypeAndCode ==
    Analyzed =>
        \A i, j \in 1..Len(Findings) :
            i # j => ~SameTypeAndCode(Findings[i], Findings[j])

\* ------------------------------------------------------------------------ C2
\* C2: the findings analyze_html returns are ordered by non-increasing
\* score, a finding's score being that of the first NVD example of its
\* nvd_info and 0 when it has no nvd_info or no examples.
C2_OrderedBySeverity ==
    Analyzed =>
        \A i, j \in 1..Len(Findings) :
            i < j => FirstExampleScore(Findings[i]) >= FirstExampleScore(Findings[j])

\* The sort moved a finding of the last pattern group (CWE 200) ahead of an
\* XSS finding with a lower score.
C2_Witness ==
    /\ Analyzed
    /\ Len(Findings) >= 2
    /\ "cwe" \in DOMAIN Findings[1]
    /\ Findings[1].cwe = "200"
    /\ \E j \in 2..Len(Findings) :
          /\ "cwe" \in DOMAIN Findings[j]
          /\ Findings[j].cwe = "79"
          /\ FirstExampleScore(Findings[1]) > FirstExampleScore(Findings[j])

\* ------------------------------------------------------------------------ C3
\* C3: analyze_html never propagates an exception raised by the engine's
\* generate call, by the NVD lookup or by HTML parsing: a result dictionary
\* is returned whatever fails.  The code lets an exception of
\* engine.generate through.
C3_NeverPropagates == last.op = "analyze_html" => ~last.raised

\* ------------------------------------------------------------------------ C4
\* The request, the status check or the parsing of the response failed.
NvdFailed(response) ==
    response.stage # "ok" \/ response.data = BodyBroken

\* C4: get_nvd_info never raises; when the request, the HTTP status check or
\* the parsing of the response fails, it returns a dictionary with the
\* cwe_id it was given, an error message and an empty examples list.
C4_NvdFailureIsADictionary ==
    last.op = "get_nvd_info" =>
        /\ ~last.raised
        /\ last.value.cwe_id = last.cwe_id
        /\ NvdFailed(last.response) =>
              /\ "error" \in DOMAIN last.value
              /\ last.value.examples = <<>>

\* A lookup that failed while the response was read.
C4_Witness ==
    /\ last.op = "get_nvd_info"
    /\ last.response.stage = "ok"
    /\ NvdFailed(last.response)
    /\ ~last.raised
    /\ last.value.examples = <<>>

\* ------------------------------------------------------------------------ C5
\* C5, as claimed: with an engine configured, analyze_html makes exactly one
\* call to engine.generate, whatever the size of the HTML.
C5_ExactlyOneGenerateCall ==
    (last.op = "analyze_html" /\ llm_engine # "none") => Len(last.prompts) = 1

\* The chunks a document of 5000 characters or more is cut into: its forms
\* and scripts, or slices of 4000 characters when parsing failed.
ChunkCount(html_code, parse_failed) ==
    IF parse_failed
    THEN (TextLen(html_code) + 3999) \div 4000
    ELSE Len(find_all(html_code, "form")) + Len(find_all(html_code, "script"))

\* C5, amended: with an engine, llm_analyze makes exactly one call to
\* engine.generate; analyze_html makes exactly one call, with the whole
\* document, when the HTML is under 5000 characters, and otherwise one call
\* per chunk (none without chunks), up to the first call that raises.
C5_OneGenerateCallPerChunk ==
    llm_engine # "none" =>
        /\ last.op = "llm_analyze" => last.prompts = <<last.html>>
        /\ last.op = "analyze_html" =>
              LET n == ChunkCount(last.html, "Error parsing HTML" \in last.printed)
              IN  IF TextLen(last.html) < 5000
                  THEN last.prompts = <<last.html>>
                  ELSE IF last.raised
                       THEN Len(last.prompts) \in 1..n
                       ELSE Len(last.prompts) = n

\* A large document with two key sections: two calls to engine.generate.
C5_Witness ==
    /\ Analyzed
    /\ llm_engine # "none"
    /\ TextLen(last.html) >= 5000
    /\ "Error parsing HTML" \notin last.printed
    /\ Len(last.prompts) = 2

\* ------------------------------------------------------------------------ C6
\* f without its nvd_info.
WithoutNvd(f) == [k \in (DOMAIN f) \ {"nvd_info"} |-> f[k]]

\* How often x occurs in s.
Occurrences(x, s) == Cardinality({i \in 1..Len(s) : s[i] = x})

\* s and t hold the same findings, each as often, in any order.
SameFindings(s, t) ==
    /\ Len(s) = Len(t)
    /\ \A i \in 1..Len(s) : Occurrences(s[i], s) = Occurrences(s[i], t)

\* C6: without an engine, llm_analyze returns an empty list and calls no
\* engine, and analyze_html returns exactly the pattern_match findings (each
\* with the nvd_info of the enrichment, in the order of the sort), with
\* summary.llm_findings equal to 0.
C6_NoEngineNoLlmFindings ==
    llm_engine = "none" =>
        /\ last.op = "llm_analyze" =>
              ~last.raised /\ last.findings = <<>> /\ last.prompts = <<>>
        /\ last.op = "analyze_html" =>
              /\ ~last.raised
              /\ last.prompts = <<>>
              /\ last.result.summary.llm_findings = 0
              /\ SameFindings([i \in 1..Len(Findings) |-> WithoutNvd(Findings[i])],
                              pattern_match(initialize_patterns, last.html))

\* Without an engine, analyze_html returned several pattern findings.
C6_Witness ==
    /\ llm_engine = "none"
    /\ Analyzed
    /\ Len(Findings) >= 2
    /\ last.result.summary.pattern_findings = Len(Findings)

\* ------------------------------------------------------------------------ C7
\* C7: pattern matching is deterministic and free of side effects: whatever
\* calls came before, pattern_match returns for a document what it returns
\* on a freshly constructed analyzer, and the pattern list stays the 8
\* patterns set at construction.
C7_PatternsFixed ==
    /\ all_patterns = initialize_patterns
    /\ Len(all_patterns) = 8
    /\ last.op = "pattern_match" =>
          last.findings = pattern_match(initialize_patterns, last.html)

\* pattern_match returned findings of two patterns.
C7_Witness ==
    /\ last.op = "pattern_match"
    /\ \E i, j \in 1..Len(last.findings) :
          last.findings[i].type # last.findings[j].type

\* ------------------------------------------------------------------------ C8
\* C8: after analyze_html, every finding whose cwe is a string of digits
\* carries an nvd_info whose cwe_id is that cwe, and every other finding (no
\* cwe, or one that is not a number) carries no nvd_info.
C8_NvdInfoFollowsCwe ==
    Analyzed =>
        \A i \in 1..Len(Findings) :
            LET f == Findings[i] IN
            IF "cwe" \in DOMAIN f /\ f.cwe \in {"79", "352", "200", "91"}
            THEN "nvd_info" \in DOMAIN f /\ f.nvd_info.cwe_id = f.cwe
            ELSE "nvd_info" \notin DOMAIN f

\* Findings of two numeric CWEs, one with a CWE that is no number and one
\* with none.
C8_Witness ==
    /\ Analyzed
    /\ \E i, j, k, l \in 1..Len(Findings) :
          /\ "cwe" \in DOMAIN Findings[i] /\ Findings[i].cwe = "79"
          /\ "cwe" \in DOMAIN Findings[j] /\ Findings[j].cwe = "200"
          /\ "cwe" \in DOMAIN Findings[k] /\ Findings[k].cwe = "CWE-91"
          /\ "cwe" \notin DOMAIN Findings[l]

\* ------------------------------------------------------------------------ C9
\* The opening tag of a form element: up to its first '>'.
OpeningTag(doc, e) ==
    LET gt == {i \in e.start..e.end : doc[i] = ">"}
    IN  SubSeq(doc, e.start, CHOOSE i \in gt : \A j \in gt : i <= j)

\* The atoms of s.
AtomsOf(s) == {s[i] : i \in 1..Len(s)}

\* The forms with method POST that hold no CSRF token.
UnprotectedForms(doc) ==
    LET forms == find_all(doc, "form")
    IN  {i \in 1..Len(forms) :
            /\ "method=POST" \in AtomsOf(OpeningTag(doc, forms[i]))
            /\ "name=csrf_token" \notin AtomsOf(SubSeq(doc, forms[i].start, forms[i].end))}

\* C9: pattern_match reports a CSRF 'Missing Token' finding for every POST
\* form that holds no CSRF token and none for a POST form that holds one,
\* also in a document of several forms.  The code reports no form that any
\* CSRF token follows, in whatever form the token is.
C9_MissingTokenPerForm ==
    last.op = "pattern_match" =>
        Cardinality({i \in 1..Len(last.findings) :
                        last.findings[i].subtype = "Missing Token"})
          = Cardinality(UnprotectedForms(last.html))

\* ----------------------------------------------------------------------- C10
\* A comment of doc, between a '<!--' and the next '-->', has the word
\* password.
CommentWithPassword(doc) ==
    \E i, j \in 1..Len(doc) :
        /\ i < j
        /\ doc[i] = "<!--"
        /\ doc[j] = "-->"
        /\ \A k \in (i + 1)..(j - 1) : doc[k] # "-->"
        /\ \E k \in (i + 1)..(j - 1) : doc[k] \in {"password", "type=password"}

\* C10: pattern_match reports a 'Sensitive Comment' finding only when a
\* single HTML comment contains the word password.  The code also reports
\* one when the word stands between two comments.
C10_SensitiveCommentOnlyInAComment ==
    last.op = "pattern_match" =>
        ((\E i \in 1..Len(last.findings) :
             last.findings[i].subtype = "Sensitive Comment")
         => CommentWithPassword(last.html))

\* ----------------------------------------------------------------------- C11
\* f without the fields named in ks.
Without(f, ks) == [k \in (DOMAIN f) \ ks |-> f[k]]

\* The findings of one llm_analyze call, each with the number of its chunk.
WithChunk(fs, n) ==
    [i \in 1..Len(fs) |->
       [k \in (DOMAIN fs[i]) \cup {"chunk"} |-> IF k = "chunk" THEN n ELSE fs[i][k]]]

RECURSIVE LlmFindingsFrom(_)
\* What analyze_html collects from the llm_analyze calls from call n on: the
\* findings of the one call on the whole document, or those of every chunk
\* with the chunk's number.
LlmFindingsFrom(n) ==
    IF n > Len(last.returns) THEN <<>>
    ELSE (IF TextLen(last.html) < 5000 THEN last.returns[n]
          ELSE WithChunk(last.returns[n], n))
         \o LlmFindingsFrom(n + 1)

\* Finding i of fs has the type and code of no pattern finding ps and of no
\* finding before it in fs.
FirstOfItsKind(ps, fs, i) ==
    /\ \A j \in 1..Len(ps) : ~SameTypeAndCode(ps[j], fs[i])
    /\ \A j \in 1..(i - 1) : ~SameTypeAndCode(fs[j], fs[i])

\* C11: every parsed LLM finding whose type and code are those of no finding
\* merged before it is in the result of analyze_html, with source
\* 'llm_analysis', also when pattern matching found nothing.
C11_LlmOnlyFindingKept ==
    Analyzed =>
        \A ps \in {pattern_match(initialize_patterns, last.html)},
           fs \in {LlmFindingsFrom(1)} :
           \A i \in 1..Len(fs) :
              FirstOfItsKind(ps, fs, i) =>
                 \E k \in 1..Len(Findings) :
                    /\ Findings[k].source = "llm_analysis"
                    /\ Without(Findings[k], {"nvd_info"}) = fs[i]

\* Pattern matching found nothing and the result holds what the LLM found.
C11_Witness ==
    /\ Analyzed
    /\ last.result.summary.pattern_findings = 0
    /\ Len(Findings) >= 2
    /\ \A k \in 1..Len(Findings) : Findings[k].source = "llm_analysis"

\* ----------------------------------------------------------------------- C12
\* C12, as claimed: the fix of a pattern finding is that of the first LLM
\* finding with a fix that duplicates it; a later duplicate does not replace
\* it.
C12_FixNotReplaced ==
    Analyzed =>
        \A fs \in {LlmFindingsFrom(1)} :
            \A k \in 1..Len(Findings) :
               (Findings[k].source = "pattern_match" /\ "fix" \in DOMAIN Findings[k]) =>
                  LET dups == {i \in 1..Len(fs) :
                                  /\ SameTypeAndCode(fs[i], Findings[k])
                                  /\ "fix" \in DOMAIN fs[i]}
                  IN  /\ dups # {}
                      /\ Findings[k].fix
                           = fs[CHOOSE i \in dups : \A j \in dups : i <= j].fix

\* ----------------------------------------------------------------------- C13
\* C13: within one analyze_html call get_nvd_info is called at most once for
\* a CWE id, also when the lookup failed, and the findings of one CWE id
\* carry the same nvd_info.
C13_OneLookupPerCwe ==
    last.op = "analyze_html" =>
        /\ \A i, j \in 1..Len(last.looked) :
              i # j => last.looked[i].cwe_id # last.looked[j].cwe_id
        /\ ~last.raised =>
              \A i, j \in 1..Len(Findings) :
                 ("cwe" \in DOMAIN Findings[i] /\ "cwe" \in DOMAIN Findings[j]
                  /\ Findings[i].cwe = Findings[j].cwe)
                 => GetEq(Findings[i], Findings[j], "nvd_info")

\* Two findings of one CWE whose only lookup failed: both carry the error.
C13_Witness ==
    /\ Analyzed
    /\ \E i, j \in 1..Len(Findings) :
          /\ i # j
          /\ "cwe" \in DOMAIN Findings[i] /\ "cwe" \in DOMAIN Findings[j]
          /\ Findings[i].cwe = Findings[j].cwe
          /\ "nvd_info" \in DOMAIN Findings[i]
          /\ "error" \in DOMAIN Findings[i].nvd_info
          /\ Cardinality({k \in 1..Len(last.looked) :
                             last.looked[k].cwe_id = Findings[i].cwe}) = 1

\* ----------------------------------------------------------------------- C14
\* str(form) of every form of doc, then str(script) of every script.
FormsThenScripts(doc) ==
    LET texts(tag) == [i \in 1..Len(find_all(doc, tag)) |->
                         ElementText(doc, find_all(doc, tag)[i])]
    IN  texts("form") \o texts("script")

\* s is the beginning of t.
IsPrefix(s, t) == Len(s) <= Len(t) /\ SubSeq(t, 1, Len(s)) = s

\* No finding of the result has a chunk tag.
NoChunkTag == Analyzed => \A k \in 1..Len(Findings) : "chunk" \notin DOMAIN Findings[k]

\* Every finding of the result taken from the LLM has the number of the
\* request that returned it.
ChunkTagsRight ==
    Analyzed =>
        \A k \in 1..Len(Findings) :
           Findings[k].source = "llm_analysis" =>
              /\ "chunk" \in DOMAIN Findings[k]
              /\ Findings[k].chunk \in 1..Len(last.prompts)
              /\ \E i \in 1..Len(last.returns[Findings[k].chunk]) :
                    last.returns[Findings[k].chunk][i]
                      = Without(Findings[k], {"nvd_info", "chunk"})

\* C14, as claimed: for HTML of 5000 characters or more analyze_html sends one
\* request per form and per script, forms first, and tags each finding with
\* the 1-based index of its chunk; under 5000 characters it sends the whole
\* document in one request and no finding gets a chunk tag.
C14_OneRequestPerFormAndScript ==
    (last.op = "analyze_html" /\ llm_engine # "none") =>
        IF TextLen(last.html) >= 5000
        THEN last.prompts = FormsThenScripts(last.html) /\ ChunkTagsRight
        ELSE last.prompts = <<last.html>> /\ NoChunkTag

\* C14, amended: with an engine, for HTML of 5000 characters or more the
\* requests are the forms then the scripts when the document parses, and the
\* slices of 4000 characters when parsing raised; they stop at the first
\* request that raises, which ends analyze_html without a result; each finding
\* taken from the LLM has the 1-based index of its request.  Under 5000
\* characters the whole document goes in one request and no finding gets a
\* chunk tag.
C14_RequestsFollowChunks ==
    (last.op = "analyze_html" /\ llm_engine # "none") =>
        IF TextLen(last.html) >= 5000
        THEN LET chunks == IF "Error parsing HTML" \in last.printed
                           THEN SimpleChunks(last.html)
                           ELSE FormsThenScripts(last.html)
             IN  /\ IF last.raised
                    THEN last.prompts # <<>> /\ IsPrefix(last.prompts, chunks)
                    ELSE last.prompts = chunks
                 /\ ChunkTagsRight
        ELSE last.prompts = <<last.html>> /\ NoChunkTag

\* A large document whose script comes before its form: the form goes first,
\* and a finding of the script carries chunk 2.
C14_Witness ==
    /\ Analyzed
    /\ llm_engine # "none"
    /\ TextLen(last.html) >= 5000
    /\ "Error parsing HTML" \notin last.printed
    /\ last.html[1] = "<script>"
    /\ Len(last.prompts) = 2
    /\ last.prompts[1][1] = "<form"
    /\ \E k \in 1..Len(Findings) :
          "chunk" \in DOMAIN Findings[k] /\ Findings[k].chunk = 2

\* ----------------------------------------------------------------------- C15
\* The request reached the end of the response and every byte that came is
\* in the file at save_path.
FullyDownloaded ==
    /\ last.net.phase = "stream"
    /\ last.net.ending = "end"
    /\ disk.files[last.save_path] = File(Concat(last.net.blocks))

\* The file at save_path has the hash the model expects.
HashMatches ==
    /\ disk.files[last.save_path].exists
    /\ calculate_sha256(disk.files[last.save_path].data) = last.model_info.sha256

\* C15: download_model returns True only if the file was fully downloaded
\* and verification was disabled, or the expected hash is the placeholder,
\* or the SHA-256 of the file equals the expected hash; with verification
\* enabled and a real expected hash that differs from the file's it returns
\* False.
C15_TrueOnlyWhenVerified ==
    (last.op = "download_model" /\ ~last.raised) =>
        /\ last.returned =>
              /\ FullyDownloaded
              /\ \/ ~last.verify_hash
                 \/ last.model_info.sha256 = <<"ADD_HASH_HERE_AFTER_UPLOAD">>
                 \/ HashMatches
        /\ (/\ last.verify_hash
            /\ last.model_info.sha256 # <<"ADD_HASH_HERE_AFTER_UPLOAD">>
            /\ ~HashMatches) => ~last.returned

\* A download verified against the hash of the uploaded file returned True.
C15_Witness ==
    /\ last.op = "download_model"
    /\ ~last.raised
    /\ last.returned
    /\ last.verify_hash
    /\ last.model_info.sha256 # <<"ADD_HASH_HERE_AFTER_UPLOAD">>
    /\ disk.files[last.save_path] = File(<<1, 2, 3>>)

\* ----------------------------------------------------------------------- C16
\* The settings of a loaded configuration but llm.model_path: the
\* <<section, key, value>> of every entry, and <<section, "", value>> of a
\* section that is a plain value.
OtherSettings(loaded) ==
    IF loaded.none THEN {}
    ELSE UNION {IF loaded.map[sec].dict
                THEN {<<sec, key, loaded.map[sec].items[key]>> :
                         key \in {k \in DOMAIN loaded.map[sec].items :
                                     ~(sec = "llm" /\ k = "model_path")}}
                ELSE {<<sec, "", loaded.map[sec].value>>}
                : sec \in DOMAIN loaded.map}

\* The configuration names model_path as the model of the LLM.
NamesModel(loaded, model_path) ==
    /\ ~loaded.none
    /\ "llm" \in DOMAIN loaded.map
    /\ loaded.map["llm"].dict
    /\ "model_path" \in DOMAIN loaded.map["llm"].items
    /\ loaded.map["llm"].items["model_path"] = model_path

\* C16, as claimed: update_config on an existing, readable config file
\* changes only llm.model_path; every other key and value of the existing
\* configuration is written back unchanged.
C16_OnlyModelPathChanges ==
    (/\ last.op = "update_config"
     /\ ~last.write_fails
     /\ last.before.files[config_path].exists
     /\ ~safe_load(last.before.files[config_path].data).raises) =>
        LET old == safe_load(last.before.files[config_path].data).value
            new == safe_load(disk.files[config_path].data).value
        IN  /\ NamesModel(new, last.model_path)
            /\ OtherSettings(new) = OtherSettings(old)

\* ----------------------------------------------------------------------- C17
\* C17: when the model file exists and --force is not given, main attempts
\* no download and updates the config to that path; otherwise the config is
\* updated only after download_model returned True, and never after it
\* returned False.
C17_ConfigUpdatedOnlyAfterSuccess ==
    last.op = "main" =>
        LET save_path == <<"models", MODELS[last.args.model].file_name>>
            kept == /\ ~last.args.list
                    /\ last.before.files[save_path].exists
                    /\ ~last.args.force
            calls == last.calls
        IN  /\ kept => /\ Len(calls) = 1
                       /\ calls[1].fn = "update_config"
                       /\ calls[1].model_path = save_path
            /\ \A i \in 1..Len(calls) :
                  calls[i].fn = "update_config" =>
                     /\ calls[i].model_path = save_path
                     /\ \/ kept
                        \/ /\ i > 1
                           /\ calls[i - 1].fn = "download_model"
                           /\ ~calls[i - 1].raised
                           /\ calls[i - 1].returned
                     /\ \/ disk.files[config_path] = last.before.files[config_path]
                        \/ NamesModel(safe_load(disk.files[config_path].data).value,
                                      save_path)
            /\ \A i \in 1..Len(calls) :
                  (calls[i].fn = "download_model" /\ ~calls[i].raised
                   /\ ~calls[i].returned) => i = Len(calls)

\* The model was there, --force was not given: main called update_config
\* alone, and the config names the model.
C17_Witness ==
    /\ last.op = "main"
    /\ ~last.args.list
    /\ ~last.args.force
    /\ last.before.files[<<"models", MODELS[last.args.model].file_name>>].exists
    /\ Len(last.calls) = 1
    /\ last.calls[1].fn = "update_config"
    /\ disk.files[config_path] # last.before.files[config_path]
    /\ NamesModel(safe_load(disk.files[config_path].data).value,
                  <<"models", MODELS[last.args.model].file_name>>)

\* ----------------------------------------------------------------------- C18
\* The user cancelled the download: KeyboardInterrupt came while the request
\* was made, while the chunks were written, or after the last chunk.
CancelledByUser ==
    /\ last.op = "download_model"
    /\ \/ last.net.phase = "request" /\ last.net.error = "interrupt"
       \/ last.net.phase = "stream"
          /\ last.net.ending \in {"interrupt", "late_interrupt"}

\* C18: after a download cancelled by the user, download_model returns False
\* and no partially downloaded file remains at save_path.
C18_CancelledLeavesNoFile ==
    CancelledByUser =>
        /\ ~last.raised
        /\ ~last.returned
        /\ ~disk.files[last.save_path].exists

\* The download was cancelled after chunks were written over a file that
\* was there before: the file is gone.
C18_Witness ==
    /\ CancelledByUser
    /\ last.net.phase = "stream"
    /\ last.net.ending = "interrupt"
    /\ last.before.files[last.save_path].exists
    /\ ~last.returned
    /\ ~disk.files[last.save_path].exists

\* ----------------------------------------------------------------------- C19
\* C19: run_test catches any exception of engine.generate and returns a
\* result with success False and the error text, and main appends exactly
\* one result per scenario of TEST_SCENARIOS, in scenario order, whatever
\* scenarios fail.
C19_RunnerNeverAborts ==
    /\ last.op = "run_test" =>
          /\ ~last.raised
          /\ last.result.name = last.scenario.name
          /\ last.engine_does.raises =>
                /\ ~last.result.success
                /\ last.result.error = last.engine_does.error
    /\ (last.op = "test_main" /\ last.ended \in {"tests", "save", "done"}) =>
          /\ last.ended # "tests"
          /\ Len(last.scenarios) = Len(TEST_SCENARIOS)
          /\ \A i \in 1..Len(TEST_SCENARIOS) :
                /\ last.scenarios[i].name = TEST_SCENARIOS[i].name
                /\ last.scenarios[i].success = ~last.engine_does[i].raises

\* main ran the seven scenarios; the second and the last failed, the others
\* did not.
C19_Witness ==
    /\ last.op = "test_main"
    /\ last.ended = "done"
    /\ Len(last.scenarios) = 7
    /\ \A i \in 1..7 : last.scenarios[i].success = (i \notin {2, 7})
    /\ disk.files[<<"tests", "results", "model_test_results.json">>].exists

\* ----------------------------------------------------------------------- C20
\* C20: create_config_files, create_example_script,
\* create_core_component_files and create_readme never overwrite a file that
\* already exists, so config/settings.yaml, .gitignore, the example script,
\* the component files and README.md stay as they are however often the
\* steps run again; setup's download_model returns the existing path without
\* downloading when the model file is already there.
CreatingSteps ==
    {"create_config_files", "create_example_script",
     "create_core_component_files", "create_readme"}

C20_SetupNeverOverwrites ==
    /\ last.op \in CreatingSteps =>
          \A p \in Paths :
             last.before.files[p].exists => disk.files[p] = last.before.files[p]
    /\ (/\ last.op = "setup_download_model"
        /\ last.model_name \in DOMAIN model_urls
        /\ last.before.files[<<"models", model_urls[last.model_name]>>].exists)
       => (/\ ~last.raised
           /\ last.returned = <<"models", model_urls[last.model_name]>>
           /\ ~last.requested
           /\ disk.files = last.before.files)

\* A second run of create_config_files met the settings and the .gitignore
\* the first run wrote for another model and left them.
C20_Witness ==
    /\ last.op = "create_config_files"
    /\ runs = 2
    /\ last.before.files[config_path] = File(SettingsText(<<"models", "llama-3-8b.Q4_K_M.gguf">>))
    /\ last.before.files[<<".gitignore">>] = File(GitignoreText)
    /\ last.model_path = <<"models", "mistral-7b-v0.1.Q4_K_M.gguf">>
    /\ disk = last.before

\* ----------------------------------------------------------------------- C21
\* The findings of the result that have the source src, without the keys ks.
FindingsOf(src, ks) ==
    LET fs == SelectSeq(Findings, LAMBDA f : f.source = src)
    IN  [i \in 1..Len(fs) |-> Without(fs[i], ks)]

RECURSIVE KeptFrom(_, _, _)
\* The findings of fs from i on that have the type and code of no finding of
\* ps and of no finding before them in fs.
KeptFrom(ps, fs, i) ==
    IF i > Len(fs) THEN <<>>
    ELSE (IF FirstOfItsKind(ps, fs, i) THEN <<fs[i]>> ELSE <<>>)
         \o KeptFrom(ps, fs, i + 1)

\* C21: every finding pattern_match returns on the document is in the result
\* of analyze_html (with the fix and the nvd_info it may have been given), an
\* LLM finding is left out exactly when a finding merged before it has its
\* type and its code, and so
\* pattern_findings <= total_findings <= pattern_findings + llm_findings.
C21_PatternFindingsSurvive ==
    Analyzed =>
        \A ps \in {pattern_match(all_patterns, last.html)},
           fs \in {LlmFindingsFrom(1)} :
           /\ SameFindings(FindingsOf("pattern_match", {"fix", "nvd_info"}), ps)
           /\ SameFindings(FindingsOf("llm_analysis", {"nvd_info"}), KeptFrom(ps, fs, 1))
           /\ last.result.summary.pattern_findings <= last.result.summary.total_findings
           /\ last.result.summary.total_findings
                <= last.result.summary.pattern_findings
                   + last.result.summary.llm_findings

\* The result holds the pattern findings, one of them with the fix of an LLM
\* finding that was left out for it, and an LLM finding that was kept.
C21_Witness ==
    /\ Analyzed
    /\ last.result.summary.pattern_findings >= 1
    /\ last.result.summary.total_findings > last.result.summary.pattern_findings
    /\ last.result.summary.total_findings
         < last.result.summary.pattern_findings + last.result.summary.llm_findings
    /\ \E k \in 1..Len(Findings) :
          Findings[k].source = "pattern_match" /\ "fix" \in DOMAIN Findings[k]

\* ----------------------------------------------------------------------- C22
\* C22: in every result of analyze_html, summary.total_findings and
\* summary.unique_findings are the length of findings,
\* summary.pattern_findings is the number of findings pattern_match returns
\* on the document, and summary.llm_findings is the number of findings the
\* llm_analyze calls returned, before the merge leaves any out.
C22_SummaryCounts ==
    Analyzed =>
        /\ last.result.summary.total_findings = Len(Findings)
        /\ last.result.summary.unique_findings = Len(Findings)
        /\ last.result.summary.pattern_findings
             = Len(pattern_match(all_patterns, last.html))
        /\ last.result.summary.llm_findings = Len(LlmFindingsFrom(1))

\* A result whose four counts differ where they can: the merge left out LLM
\* findings, and both pattern matching and the LLM found something.
C22_Witness ==
    /\ Analyzed
    /\ last.result.summary.pattern_findings >= 2
    /\ last.result.summary.llm_findings >= 3
    /\ last.result.summary.llm_findings # last.result.summary.pattern_findings
    /\ Len(Findings) < last.result.summary.pattern_findings
                       + last.result.summary.llm_findings
    /\ Len(Findings) = last.result.summary.unique_findings

\* ----------------------------------------------------------------------- C23
\* The lines of a reply with the key k.
LinesWith(text, k) == {i \in 1..Len(text) : text[i].key = k}

\* The sections of a reply that hold both a line that starts with "Type:"
\* and one that starts with "Description:": a section runs from a
\* "VULNERABILITY " marker to the next one or to the end of the reply.
CompleteSections(text) ==
    {m \in LinesWith(text, Marker) :
        \A k \in {"Type:", "Description:"} :
           \E i \in LinesWith(text, k) :
              /\ m < i
              /\ \A n \in LinesWith(text, Marker) : ~(m < n /\ n < i)}

\* C23: every finding llm_analyze returns has the source 'llm_analysis', a
\* type and a description; a VULNERABILITY section without a 'Type:' line or
\* without a 'Description:' line gives no finding, and there are never more
\* findings than 'VULNERABILITY ' markers in the reply.
C23_LlmFindingsAreComplete ==
    (last.op = "llm_analyze" /\ ~last.raised /\ last.prompts # <<>>) =>
        /\ \A i \in 1..Len(last.findings) :
              /\ last.findings[i].source = "llm_analysis"
              /\ {"type", "description"} \subseteq DOMAIN last.findings[i]
        /\ Len(last.findings) <= Cardinality(CompleteSections(last.reply.text))
        /\ Len(last.findings) <= Cardinality(LinesWith(last.reply.text, Marker))

\* llm_analyze read a reply with more markers than complete sections and
\* returned a finding for each complete section.
C23_Witness ==
    /\ last.op = "llm_analyze"
    /\ ~last.raised
    /\ last.prompts # <<>>
    /\ Cardinality(CompleteSections(last.reply.text))
         < Cardinality(LinesWith(last.reply.text, Marker))
    /\ Len(last.findings) = Cardinality(CompleteSections(last.reply.text))
    /\ Len(last.findings) >= 2

====
